---- MODULE Spec2Model ----
(***************************************************************************)
(* Model of the BLE wrapper of rustcam (src/platform/nuttx/ble_wrapper.c), *)
(* NimBLE backend: the module state (g_ble_*, g_pending_adv, the GATT      *)
(* command buffer and read message), the exported rust_ble_wrapper_*       *)
(* functions and the callbacks NimBLE invokes on the host thread.          *)
(*                                                                         *)
(* Spec      every function and callback runs as one atomic step.          *)
(* SpecGatt  the GATT command buffer and read message alone.               *)
(* SpecRace  rust_ble_wrapper_start_advertising on the application thread  *)
(*           interleaved statement by statement with ble_on_sync on the    *)
(*           host thread.                                                  *)
(* SpecMailbox  rust_ble_wrapper_gatt_get_command on the application       *)
(*           thread interleaved statement by statement with a peer write   *)
(*           (gatt_chr_access) on the host thread.                         *)
(* SpecNative  the functions of the native ioctl backend                   *)
(*           (CONFIG_WIRELESS_BLUETOOTH), each one atomic step.            *)
(* SpecStop  rust_ble_wrapper_stop_advertising on the application thread   *)
(*           interleaved statement by statement with the handler of a      *)
(*           disconnect or a failed connect on the host thread.            *)
(* SpecName  the strncpy of rust_ble_wrapper_start_advertising, byte by    *)
(*           byte, interleaved with the reads of g_device_name in a        *)
(*           do_start_advertising on the host thread.                      *)
(***************************************************************************)
EXTENDS Integers, Sequences, FiniteSets, TLC

\* ------------------------------------------------------------- constants

\* sizeof(g_device_name) - 1: the bytes strncpy may copy into g_device_name
DEVICE_NAME_MAX == 31
\* BLE_HS_ADV_MAX_SZ: the size of do_start_advertising's ad[] buffer
BLE_HS_ADV_MAX_SZ == 31
\* sizeof(g_gatt_command) - 1
GATT_COMMAND_MAX == 63
\* sizeof(g_gatt_read_msg_buf) - 1
GATT_READ_MSG_MAX == 63
BLE_HS_ADV_TYPE_FLAGS == 1
BLE_HS_ADV_TYPE_COMP_NAME == 9
\* BLE_HS_ADV_F_DISC_GEN | BLE_HS_ADV_F_BREDR_UNSUP
AD_FLAGS == 6
EALREADY == 114
ENODEV == 19
BLE_ATT_ERR_UNLIKELY == 14
BLE_ATT_ERR_INSUFFICIENT_RES == 17
\* sizeof(g_gatt_command)
GATT_COMMAND_SIZE == 64

\* ---------------------------------------------------------------- bounds

\* connection handles the controller hands out: 1..MaxHandle
MaxHandle == 2
\* threads of one kind the model lets pthread_create spawn
MaxThreads == 2
\* disconnect and failed connect events handled statement by statement in
\* one run of SpecStop
MaxEvents == 2
\* the longest name argument, longer than g_device_name can hold
MaxNameLen == 33
\* the longest GATT write, longer than g_gatt_command can hold
MaxWriteLen == 65

\* --------------------------------------------------------------- helpers

Rep(c, n) == [i \in 1..n |-> c]

Min(a, b) == IF a < b THEN a ELSE b

\* a copy with no bound
StrcpyUnbounded(src, n) == src

\* strncpy(dst, src, n); dst[n] = '\0': the C string left in dst
Strncpy(src, n) == SubSeq(src, 1, Min(Len(src), n))

\* "RustCam"
DefaultDeviceName == <<82, 117, 115, 116, 67, 97, 109>>

\* "Hello from RustCam!"
DefaultReadMsg ==
  <<72, 101, 108, 108, 111, 32, 102, 114, 111, 109, 32,
    82, 117, 115, 116, 67, 97, 109, 33>>

\* name arguments of start_advertising: NULL or "" (<<>>), short names, the
\* longest name whose payload fits ad[], the shortest that does not, the
\* documented maximum of 29 characters, and one longer than g_device_name
NameArgs ==
  { <<>>, <<65, 66>>, Rep(66, 26), Rep(67, 27), Rep(68, 29), Rep(69, MaxNameLen) }

Handles == 1..MaxHandle

\* char g_device_name[32] holding the C string name
RawName(name) ==
  [i \in 1..(DEVICE_NAME_MAX + 1) |-> IF i <= Len(name) THEN name[i] ELSE 0]

\* the C string in a char array: the bytes before the first NUL
CStr(buf) ==
  LET z == {i \in 1..Len(buf) : buf[i] = 0}
  IN  IF z = {} THEN buf
      ELSE SubSeq(buf, 1, (CHOOSE i \in z : \A j \in z : i <= j) - 1)

\* a transport call made by the wrapper: the function, its data, its result
Call(fn, data, rc) == [fn |-> fn, data |-> data, rc |-> rc]

\* -------------------------------------------------------------- variables

VARIABLES
  g_ble_initialized,     \* static volatile int
  g_ble_host_synced,
  g_ble_advertising,
  g_ble_connected,
  g_conn_handle,         \* static volatile uint16_t
  g_pending_adv,
  g_device_name,         \* the C string held in char[32]
  g_gatt_command,        \* uint8_t[64]
  g_gatt_command_len,    \* static volatile uint8_t
  g_gatt_read_msg,       \* the C string g_gatt_read_msg points to
  svc_gap_device_name,   \* the name held by ble_svc_gap (<<>>: never set)
  n_hci_threads,         \* live threads running ble_hci_sock_thread
  n_host_threads,        \* live threads running ble_host_thread
  fault,                 \* a write past the end of ad[] brought the task down
  op,                    \* the function or callback that ran last
  arg,                   \* its argument
  ret,                   \* its return value
  calls,                 \* the transport calls it made, in order
  pre,                   \* the module state when it was entered
  sync_seen,             \* history: some ble_on_sync has set g_ble_host_synced
  req_name,              \* history: the name of the last accepted start request
  out,                   \* the bytes the last function handed back
  scen,                  \* history: how far "write, write, take, take" has got
  last_write,            \* history: the data of the last write that was stored
  lost,                  \* history: the command last overwritten before it was taken
  pc,                    \* SpecRace: the statement each thread is at
  ad,                    \* SpecRace: each thread's ad[] in do_start_advertising
  app_name,              \* SpecRace: the name argument of the call under way
  race,                  \* SpecRace history: a start request returned 0, a
                         \* ble_on_sync ran to its end, the transport rejected
                         \* a call
  mbox,                  \* SpecMailbox: the locals of gatt_get_command (len,
                         \* buf) and of gatt_chr_access (om, wlen), and the
                         \* history flag dropped
  cpy,                   \* SpecName: the bytes of g_device_name[32] (buf), the
                         \* index strncpy is at (i), the three strlen results
                         \* of do_start_advertising (len1, n, ad_len) and the
                         \* history flag raced
  g_bt_sockfd,           \* native backend: static int, -1 when closed
  g_gatt_registered      \* native backend: static volatile int

progvars ==
  <<g_ble_initialized, g_ble_host_synced, g_ble_advertising, g_ble_connected,
    g_conn_handle, g_pending_adv, g_device_name, g_gatt_command,
    g_gatt_command_len, g_gatt_read_msg, svc_gap_device_name,
    n_hci_threads, n_host_threads, fault>>

nimblevars ==
  <<g_ble_initialized, g_ble_host_synced, g_ble_advertising, g_ble_connected,
    g_conn_handle, g_pending_adv, g_device_name, svc_gap_device_name,
    n_hci_threads, n_host_threads, fault>>

gattvars == <<g_gatt_command, g_gatt_command_len, g_gatt_read_msg>>

gatthist == <<scen, last_write, lost>>

ghostvars == <<op, arg, ret, calls, pre, sync_seen, req_name, out, gatthist>>

\* the state of the native ioctl backend alone
nativevars == <<g_bt_sockfd, g_gatt_registered>>

racevars == <<pc, ad, app_name, race, mbox, cpy, nativevars>>

vars == <<progvars, ghostvars, racevars>>

\* the module state as one value
State ==
  [ initialized |-> g_ble_initialized,
    host_synced |-> g_ble_host_synced,
    advertising |-> g_ble_advertising,
    connected   |-> g_ble_connected,
    conn_handle |-> g_conn_handle,
    pending_adv |-> g_pending_adv,
    device_name |-> g_device_name,
    command     |-> g_gatt_command,
    command_len |-> g_gatt_command_len,
    read_msg    |-> g_gatt_read_msg,
    gap_name    |-> svc_gap_device_name,
    hci_threads |-> n_hci_threads,
    host_threads |-> n_host_threads,
    sockfd      |-> g_bt_sockfd,
    gatt_registered |-> g_gatt_registered ]

\* the static initialisers of the module state
Init ==
  /\ g_ble_initialized = 0
  /\ g_ble_host_synced = 0
  /\ g_ble_advertising = 0
  /\ g_ble_connected = 0
  /\ g_conn_handle = 0
  /\ g_pending_adv = 0
  /\ g_device_name = DefaultDeviceName
  /\ g_gatt_command = Rep(0, GATT_COMMAND_SIZE)
  /\ g_gatt_command_len = 0
  /\ g_gatt_read_msg = DefaultReadMsg
  /\ svc_gap_device_name = <<>>
  /\ n_hci_threads = 0
  /\ n_host_threads = 0
  /\ fault = FALSE
  /\ g_bt_sockfd = -1
  /\ g_gatt_registered = 0
  /\ op = "none"
  /\ arg = <<>>
  /\ ret = 0
  /\ calls = <<>>
  /\ pre = State
  /\ sync_seen = FALSE
  /\ req_name = <<>>
  /\ out = <<>>
  /\ scen = 0
  /\ last_write = <<>>
  /\ lost = <<>>
  /\ pc = [app |-> "idle", host |-> "idle"]
  /\ ad = [app |-> <<>>, host |-> <<>>]
  /\ app_name = <<>>
  /\ race = [requested |-> FALSE, synced |-> FALSE, rejected |-> FALSE,
             stop_called |-> FALSE, stop_returned |-> FALSE,
             event |-> "none", events |-> 0]
  /\ mbox = [len |-> 0, buf |-> <<>>, om |-> <<>>, wlen |-> 0, dropped |-> FALSE]
  /\ cpy = [buf |-> RawName(DefaultDeviceName), i |-> 0, len1 |-> 0, n |-> 0,
            ad_len |-> 0, raced |-> FALSE]

\* what an operation leaves behind for the properties to read
Record(o, a, r, c, bytes) ==
  /\ op' = o
  /\ arg' = a
  /\ ret' = r
  /\ calls' = c
  /\ pre' = State
  /\ sync_seen' = (sync_seen \/ (o = "on_sync" /\ r = 0))
  /\ req_name' = IF o = "start_advertising" /\ r = 0 /\ a # <<>>
                   THEN a ELSE req_name
  /\ out' = bytes

Done(o, a, r, c) ==
  /\ Record(o, a, r, c, <<>>)
  /\ UNCHANGED gatthist

\* ------------------------------------------------- do_start_advertising

\* the advertising data do_start_advertising builds from a device name
AdPayload(name) ==
  <<2, BLE_HS_ADV_TYPE_FLAGS, AD_FLAGS>>
    \o <<(Len(name) + 1) % 256, BLE_HS_ADV_TYPE_COMP_NAME>>
    \o name

\* bytes the memcpy of the name writes past the end of ad[]
AdOverrun(name) ==
  IF Len(AdPayload(name)) > BLE_HS_ADV_MAX_SZ
    THEN Len(AdPayload(name)) - BLE_HS_ADV_MAX_SZ ELSE 0

\* what one run of do_start_advertising can come to: both transport calls
\* accepted, ble_gap_adv_set_data rejected, ble_gap_adv_start rejected; data
\* longer than BLE_HS_ADV_MAX_SZ is rejected by ble_gap_adv_set_data, and the
\* write past ad[] that built it may bring the task down instead, at once or
\* when do_start_advertising returns after the rejected call
StartOutcomes(name) ==
  IF AdOverrun(name) > 0
    THEN {"set_data_fail", "fault", "fault_after_set_data"}
    ELSE {"ok", "set_data_fail", "adv_start_fail"}

\* the outcomes in which the task goes down
StartFaults(o) == o \in {"fault", "fault_after_set_data"}

\* the transport calls of one run of do_start_advertising
StartCalls(name, o) ==
  CASE o = "ok" ->
         << Call("ble_gap_adv_set_data", AdPayload(name), 0),
            Call("ble_gap_adv_start", <<>>, 0) >>
    [] o = "adv_start_fail" ->
         << Call("ble_gap_adv_set_data", AdPayload(name), 0),
            Call("ble_gap_adv_start", <<>>, 1) >>
    [] o = "fault" -> <<>>
    [] OTHER ->
         << Call("ble_gap_adv_set_data", AdPayload(name), 1) >>

\* g_ble_advertising after one run of do_start_advertising
StartAdvertising(adv, o) == IF o = "ok" THEN 1 ELSE adv

\* ------------------------------------------------ application functions

\* a guard that is always taken, and one that never is: what the guards
\* below become when their test is dropped
GuardAlways(flag) == TRUE

GuardNever(flag) == FALSE

\* rust_ble_wrapper_init: if (g_ble_initialized) return -EALREADY;
AlreadyInitialized(initialized) == initialized # 0

\* rust_ble_wrapper_deinit: if (!g_ble_initialized) return -ENODEV;
DeinitNotInitialized(initialized) == initialized = 0

\* rust_ble_wrapper_start_advertising: if (!g_ble_initialized) return -ENODEV;
StartNotInitialized(initialized) == initialized = 0

\* if (g_ble_host_synced) do_start_advertising(); else g_pending_adv = 1;
HostSynced(synced) == synced # 0

\* rust_ble_wrapper_stop_advertising: if (!g_ble_advertising) return 0;
NotAdvertising(advertising) == advertising = 0

\* rust_ble_wrapper_deinit: if (g_ble_advertising) { ble_gap_adv_stop(); ... }
DeinitAdvertising(advertising) == advertising # 0

InitOutcomes ==
  {"ok", "count_cfg_fail", "add_svcs_fail", "hci_create_fail", "host_create_fail"}

\* the transport calls of rust_ble_wrapper_init, up to the one that fails
InitCalls(o) ==
  LET setup  == << Call("nimble_port_init", <<>>, 0) >>
      count  == Call("ble_gatts_count_cfg", <<>>, IF o = "count_cfg_fail" THEN 1 ELSE 0)
      add    == Call("ble_gatts_add_svcs", <<>>, IF o = "add_svcs_fail" THEN 1 ELSE 0)
      name   == Call("ble_svc_gap_device_name_set", g_device_name, 0)
      hci    == Call("pthread_create_hci", <<>>, IF o = "hci_create_fail" THEN 1 ELSE 0)
      host   == Call("pthread_create_host", <<>>, IF o = "host_create_fail" THEN 1 ELSE 0)
  IN  CASE o = "count_cfg_fail"   -> setup \o <<count>>
        [] o = "add_svcs_fail"    -> setup \o <<count, add>>
        [] o = "hci_create_fail"  -> setup \o <<count, add, name, hci>>
        [] OTHER                  -> setup \o <<count, add, name, hci, host>>

rust_ble_wrapper_init(o) ==
  /\ ~fault
  /\ IF AlreadyInitialized(g_ble_initialized)
       THEN /\ Done("init", <<>>, -EALREADY, <<>>)
            /\ UNCHANGED progvars
       ELSE /\ n_hci_threads < MaxThreads
            /\ n_host_threads < MaxThreads
            /\ Done("init", <<>>, IF o = "ok" THEN 0 ELSE -1, InitCalls(o))
            /\ svc_gap_device_name' =
                 IF o \in {"count_cfg_fail", "add_svcs_fail"}
                   THEN svc_gap_device_name ELSE g_device_name
            /\ n_hci_threads' =
                 IF o \in {"ok", "host_create_fail"}
                   THEN n_hci_threads + 1 ELSE n_hci_threads
            /\ n_host_threads' =
                 IF o = "ok" THEN n_host_threads + 1 ELSE n_host_threads
            /\ g_ble_initialized' = IF o = "ok" THEN 1 ELSE g_ble_initialized
            /\ UNCHANGED <<g_ble_host_synced, g_ble_advertising, g_ble_connected,
                           g_conn_handle, g_pending_adv, g_device_name, fault,
                           gattvars>>
  /\ UNCHANGED racevars

rust_ble_wrapper_deinit ==
  /\ ~fault
  /\ IF DeinitNotInitialized(g_ble_initialized)
       THEN /\ Done("deinit", <<>>, -ENODEV, <<>>)
            /\ UNCHANGED progvars
       ELSE /\ Done("deinit", <<>>, 0,
                    IF DeinitAdvertising(g_ble_advertising)
                      THEN << Call("ble_gap_adv_stop", <<>>, 0) >> ELSE <<>>)
            /\ g_ble_advertising' =
                 IF DeinitAdvertising(g_ble_advertising)
                   THEN 0 ELSE g_ble_advertising
            /\ g_ble_initialized' = 0
            /\ g_ble_host_synced' = 0
            /\ UNCHANGED <<g_ble_connected, g_conn_handle, g_pending_adv,
                           g_device_name, svc_gap_device_name, n_hci_threads,
                           n_host_threads, fault, gattvars>>
  /\ UNCHANGED racevars

\* a handler whose do_start_advertising brought the task down never returns:
\* c holds the transport calls it made before that
Faulted(o, a, c) ==
  /\ fault' = TRUE
  /\ op' = o
  /\ arg' = a
  /\ ret' = 0
  /\ calls' = c
  /\ pre' = State
  /\ sync_seen' = (sync_seen \/ o = "on_sync")
  /\ UNCHANGED <<req_name, out, gatthist>>

rust_ble_wrapper_start_advertising(name) ==
  /\ ~fault
  /\ IF StartNotInitialized(g_ble_initialized)
       THEN /\ Done("start_advertising", name, -ENODEV, <<>>)
            /\ UNCHANGED progvars
       ELSE LET given   == name # <<>>
                newname == IF given THEN Strncpy(name, DEVICE_NAME_MAX)
                                    ELSE g_device_name
                setname == IF given
                             THEN << Call("ble_svc_gap_device_name_set", newname, 0) >>
                             ELSE <<>>
            IN  /\ g_device_name' = newname
                /\ svc_gap_device_name' =
                     IF given THEN newname ELSE svc_gap_device_name
                /\ IF HostSynced(g_ble_host_synced)
                     THEN \E o \in StartOutcomes(newname) :
                            /\ IF StartFaults(o)
                                 THEN /\ Faulted("start_advertising", name,
                                                 setname \o StartCalls(newname, o))
                                      /\ UNCHANGED g_ble_advertising
                                 ELSE /\ Done("start_advertising", name, 0,
                                              setname \o StartCalls(newname, o))
                                      /\ g_ble_advertising' =
                                           StartAdvertising(g_ble_advertising, o)
                                      /\ UNCHANGED fault
                            /\ UNCHANGED g_pending_adv
                     ELSE /\ Done("start_advertising", name, 0, setname)
                          /\ g_pending_adv' = 1
                          /\ UNCHANGED <<g_ble_advertising, fault>>
                /\ UNCHANGED <<g_ble_initialized, g_ble_host_synced,
                               g_ble_connected, g_conn_handle, n_hci_threads,
                               n_host_threads, gattvars>>
  /\ UNCHANGED racevars

rust_ble_wrapper_stop_advertising ==
  /\ ~fault
  /\ IF NotAdvertising(g_ble_advertising)
       THEN /\ Done("stop_advertising", <<>>, 0, <<>>)
            /\ UNCHANGED progvars
       ELSE /\ Done("stop_advertising", <<>>, 0,
                    << Call("ble_gap_adv_stop", <<>>, 0) >>)
            /\ g_ble_advertising' = 0
            /\ g_pending_adv' = 0
            /\ UNCHANGED <<g_ble_initialized, g_ble_host_synced, g_ble_connected,
                           g_conn_handle, g_device_name, svc_gap_device_name,
                           n_hci_threads, n_host_threads, fault, gattvars>>
  /\ UNCHANGED racevars

rust_ble_wrapper_is_connected ==
  /\ ~fault
  /\ Done("is_connected", <<>>, g_ble_connected, <<>>)
  /\ UNCHANGED <<progvars, racevars>>

\* ---------------------------------------------------- NimBLE callbacks

\* the callbacks run on the host thread (nimble_port_run)
HostThreadRunning == n_host_threads > 0

\* ble_on_sync's address steps: every one succeeds, or the named one fails
AddrOutcomes ==
  {"ok", "gen_rnd_fail", "set_rnd_fail", "ensure_addr_fail", "infer_auto_fail"}

\* ble_hs_util_ensure_addr or ble_hs_id_infer_auto failed: return;
SyncReturnsEarly(a) == a \in {"ensure_addr_fail", "infer_auto_fail"}

\* if (g_pending_adv) { g_pending_adv = 0; do_start_advertising(); }
PendingAdv(pending) == pending # 0

\* if (g_ble_advertising) do_start_advertising();   (Resume advertising)
ResumeAdvertising(advertising) == advertising # 0

\* if (event->connect.status == 0)
ConnectSucceeded(status) == status = 0

ble_on_sync(a) ==
  /\ ~fault
  /\ HostThreadRunning
  /\ IF SyncReturnsEarly(a)
       THEN /\ Done("on_sync", <<>>, -1, <<>>)
            /\ UNCHANGED progvars
       ELSE /\ g_ble_host_synced' = 1
            /\ IF PendingAdv(g_pending_adv)
                 THEN /\ g_pending_adv' = 0
                      /\ \E o \in StartOutcomes(g_device_name) :
                           IF StartFaults(o)
                             THEN /\ Faulted("on_sync", <<>>,
                                             StartCalls(g_device_name, o))
                                  /\ UNCHANGED g_ble_advertising
                             ELSE /\ Done("on_sync", <<>>, 0,
                                          StartCalls(g_device_name, o))
                                  /\ g_ble_advertising' =
                                       StartAdvertising(g_ble_advertising, o)
                                  /\ UNCHANGED fault
                 ELSE /\ Done("on_sync", <<>>, 0, <<>>)
                      /\ UNCHANGED <<g_pending_adv, g_ble_advertising, fault>>
            /\ UNCHANGED <<g_ble_initialized, g_ble_connected, g_conn_handle,
                           g_device_name, svc_gap_device_name, n_hci_threads,
                           n_host_threads, gattvars>>
  /\ UNCHANGED racevars

\* a reset that left g_ble_host_synced as it was
HostSyncedKept(synced) == synced

\* ble_on_reset: g_ble_host_synced = 0
HostSyncedAfterReset(synced) == 0

ble_on_reset ==
  /\ ~fault
  /\ HostThreadRunning
  /\ Done("on_reset", <<>>, 0, <<>>)
  /\ g_ble_host_synced' = HostSyncedAfterReset(g_ble_host_synced)
  /\ UNCHANGED <<g_ble_initialized, g_ble_advertising, g_ble_connected,
                 g_conn_handle, g_pending_adv, g_device_name,
                 svc_gap_device_name, n_hci_threads, n_host_threads, fault,
                 gattvars, racevars>>

\* the resume path shared by a failed connect and a disconnect
Resume(o, a) ==
  IF ResumeAdvertising(g_ble_advertising)
    THEN \E so \in StartOutcomes(g_device_name) :
           IF StartFaults(so)
             THEN /\ Faulted(o, a, StartCalls(g_device_name, so))
                  /\ UNCHANGED g_ble_advertising
             ELSE /\ Done(o, a, 0, StartCalls(g_device_name, so))
                  /\ g_ble_advertising' = StartAdvertising(g_ble_advertising, so)
                  /\ UNCHANGED fault
    ELSE /\ Done(o, a, 0, <<>>)
         /\ UNCHANGED <<g_ble_advertising, fault>>

\* BLE_GAP_EVENT_CONNECT
ble_gap_event_connect(status, handle) ==
  /\ ~fault
  /\ HostThreadRunning
  /\ IF ConnectSucceeded(status)
       THEN /\ Done("gap_connect", <<status, handle>>, 0, <<>>)
            /\ g_conn_handle' = handle
            /\ g_ble_connected' = 1
            /\ UNCHANGED <<g_ble_advertising, fault>>
       ELSE /\ Resume("gap_connect", <<status, handle>>)
            /\ UNCHANGED <<g_conn_handle, g_ble_connected>>
  /\ UNCHANGED <<g_ble_initialized, g_ble_host_synced, g_pending_adv,
                 g_device_name, svc_gap_device_name, n_hci_threads,
                 n_host_threads, gattvars, racevars>>

\* BLE_GAP_EVENT_DISCONNECT
ble_gap_event_disconnect ==
  /\ ~fault
  /\ HostThreadRunning
  /\ g_ble_connected' = 0
  /\ Resume("gap_disconnect", <<>>)
  /\ UNCHANGED <<g_ble_initialized, g_ble_host_synced, g_conn_handle,
                 g_pending_adv, g_device_name, svc_gap_device_name,
                 n_hci_threads, n_host_threads, gattvars, racevars>>

\* BLE_GAP_EVENT_ADV_COMPLETE
ble_gap_event_adv_complete ==
  /\ ~fault
  /\ HostThreadRunning
  /\ Done("gap_adv_complete", <<>>, 0, <<>>)
  /\ UNCHANGED <<progvars, racevars>>

\* BLE_GAP_EVENT_MTU
ble_gap_event_mtu ==
  /\ ~fault
  /\ HostThreadRunning
  /\ Done("gap_mtu", <<>>, 0, <<>>)
  /\ UNCHANGED <<progvars, racevars>>

\* ------------------------------------------------------ GATT functions

\* the data of peer writes: empty, "de", "abc" and one that does not fit
\* g_gatt_command
WriteData ==
  { <<>>, <<100, 101>>, <<97, 98, 99>>, Rep(56, MaxWriteLen) }

\* the messages handed to gatt_set_read_msg: NULL or "" (<<>>), "X", the
\* longest that fits g_gatt_read_msg_buf and one that does not
ReadMsgs ==
  { <<>>, <<88>>, Rep(89, GATT_READ_MSG_MAX), Rep(90, MaxWriteLen) }

\* the buf_len arguments of gatt_get_command
BufLens == {0, 1, 3, GATT_COMMAND_SIZE}

\* memcpy(dst, src, Len(src)): dst with its first bytes replaced
Memcpy(dst, src) ==
  [i \in 1..Len(dst) |-> IF i <= Len(src) THEN src[i] ELSE dst[i]]

\* dst[k] = v, for the C index k
SetByte(dst, k, v) == [dst EXCEPT ![k + 1] = v]

\* uint16_t len = OS_MBUF_PKTLEN(ctxt->om), cut to sizeof(g_gatt_command) - 1
WriteLen(data) == Min(Len(data), GATT_COMMAND_MAX)

\* what ble_hs_mbuf_to_flat can come to: the copy made and 0 returned, or a
\* failure, before or after the copy
FlatOutcomes == {"ok", "fail_before_copy", "fail_after_copy"}

\* the history of "write, write, take, take": 1 after a stored non-empty write,
\* 2 after two in a row, 3 after the take that follows them, 4 after the take
\* that follows that one
ScenAfterWrite(s, stored) ==
  IF ~stored THEN 0 ELSE IF s \in {1, 2} THEN 2 ELSE 1

ScenAfterTake(s, roomy) ==
  IF s = 2 /\ roomy THEN 3 ELSE IF s = 3 THEN 4 ELSE 0

\* gatt_chr_access on the write characteristic, BLE_GATT_ACCESS_OP_WRITE_CHR
gatt_chr_access_write(data, o) ==
  /\ ~fault
  /\ HostThreadRunning
  /\ LET len    == WriteLen(data)
         copied == Memcpy(g_gatt_command, SubSeq(data, 1, len))
     IN  IF o = "ok"
           THEN /\ g_gatt_command' = SetByte(copied, len, 0)
                /\ g_gatt_command_len' = len
                /\ Record("gatt_write", data, 0, <<>>, <<>>)
                /\ scen' = ScenAfterWrite(scen, len > 0)
                /\ last_write' = SubSeq(data, 1, len)
                /\ lost' = IF g_gatt_command_len > 0 /\ last_write # SubSeq(data, 1, len)
                             THEN last_write
                             ELSE IF lost = SubSeq(data, 1, len) THEN <<>> ELSE lost
           ELSE /\ g_gatt_command' =
                     IF o = "fail_after_copy" THEN copied ELSE g_gatt_command
                /\ Record("gatt_write", data, BLE_ATT_ERR_UNLIKELY, <<>>, <<>>)
                /\ scen' = 0
                /\ lost' = IF lost = SubSeq(data, 1, len) THEN <<>> ELSE lost
                /\ UNCHANGED <<g_gatt_command_len, last_write>>
  /\ UNCHANGED <<nimblevars, g_gatt_read_msg, racevars>>

\* a read of the read characteristic that drained the command mailbox
gatt_chr_access_read_draining(appended) ==
  /\ ~fault
  /\ HostThreadRunning
  /\ Record("gatt_read", <<>>, 0, <<>>, g_gatt_read_msg)
  /\ g_gatt_command_len' = 0
  /\ UNCHANGED <<nimblevars, g_gatt_command, g_gatt_read_msg, gatthist,
                 racevars>>

\* gatt_chr_access on the read characteristic, BLE_GATT_ACCESS_OP_READ_CHR
gatt_chr_access_read(appended) ==
  /\ ~fault
  /\ HostThreadRunning
  /\ IF appended
       THEN Record("gatt_read", <<>>, 0, <<>>, g_gatt_read_msg)
       ELSE Record("gatt_read", <<>>, BLE_ATT_ERR_INSUFFICIENT_RES, <<>>, <<>>)
  /\ UNCHANGED <<progvars, gatthist, racevars>>

\* gatt_chr_access with an operation the characteristic does not take
gatt_chr_access_other ==
  /\ ~fault
  /\ HostThreadRunning
  /\ Record("gatt_other", <<>>, BLE_ATT_ERR_UNLIKELY, <<>>, <<>>)
  /\ UNCHANGED <<progvars, gatthist, racevars>>

\* g_gatt_command_len = 0 left out of gatt_get_command
CommandLenKept(len) == len

\* Clear command after reading: g_gatt_command_len = 0;
CommandLenAfterTake(len) == 0

\* rust_ble_wrapper_gatt_get_command(buf, buf_len); has_buf: buf != NULL
rust_ble_wrapper_gatt_get_command(has_buf, buf_len) ==
  /\ ~fault
  /\ LET len0 == g_gatt_command_len
         len  == IF len0 > buf_len - 1 THEN buf_len - 1 ELSE len0
         nonnull == IF has_buf THEN 1 ELSE 0
     IN  IF len0 = 0 \/ ~has_buf \/ buf_len <= 0
           THEN /\ Record("gatt_get_command", <<buf_len, nonnull>>, 0, <<>>,
                          <<>>)
                /\ UNCHANGED g_gatt_command_len
           ELSE /\ Record("gatt_get_command", <<buf_len, nonnull>>, len, <<>>,
                          SubSeq(g_gatt_command, 1, len))
                /\ g_gatt_command_len' = CommandLenAfterTake(len0)
  /\ scen' = ScenAfterTake(scen, has_buf /\ buf_len > g_gatt_command_len)
  /\ UNCHANGED <<nimblevars, g_gatt_command, g_gatt_read_msg, last_write, lost,
                 racevars>>

rust_ble_wrapper_gatt_has_command ==
  /\ ~fault
  /\ Record("gatt_has_command", <<>>, IF g_gatt_command_len > 0 THEN 1 ELSE 0,
            <<>>, <<>>)
  /\ UNCHANGED <<progvars, gatthist, racevars>>

\* gatt_set_read_msg without its reset to the default greeting
ReadMsgNoDefault(msg) == Strncpy(msg, GATT_READ_MSG_MAX)

\* the C string in g_gatt_read_msg_buf after gatt_set_read_msg(msg)
ReadMsgAfterSet(msg) ==
  IF msg = <<>> THEN Strncpy(DefaultReadMsg, GATT_READ_MSG_MAX)
                ELSE Strncpy(msg, GATT_READ_MSG_MAX)

rust_ble_wrapper_gatt_set_read_msg(msg) ==
  /\ ~fault
  /\ g_gatt_read_msg' = ReadMsgAfterSet(msg)
  /\ Record("gatt_set_read_msg", msg, 0, <<>>, <<>>)
  /\ UNCHANGED <<nimblevars, g_gatt_command, g_gatt_command_len, gatthist,
                 racevars>>

\* ------------------------------------------ native ioctl backend

\* The functions of the CONFIG_WIRELESS_BLUETOOTH build, which has its own
\* g_ble_initialized, g_ble_advertising and g_device_name and no host thread,
\* events, pending start or connection tracking.

\* the descriptor socket() returns when it succeeds
NativeFd == 3

\* the state the native functions leave alone
NativeUnchanged ==
  UNCHANGED <<g_ble_host_synced, g_ble_connected, g_conn_handle, g_pending_adv,
              svc_gap_device_name, n_hci_threads, n_host_threads, fault,
              gattvars, pc, ad, app_name, race, mbox, cpy>>

\* native rust_ble_wrapper_stop_advertising: if (!g_ble_initialized) return -ENODEV;
StopNotInitialized(initialized) == initialized = 0

\* ioctl(g_bt_sockfd, SIOCBTADVSTOP, ...): 0, or -1 with errno set
IoctlOutcomes == {"ok", "ioctl_fail"}

\* g_ble_advertising after the native stop_advertising body
StopAdvertisingNative(adv, o) ==
  IF adv = 0 THEN adv ELSE IF o = "ok" THEN 0 ELSE adv

\* the transport calls of the native stop_advertising body
StopCallsNative(adv, o) ==
  IF adv = 0 THEN <<>>
  ELSE << Call("ioctl_SIOCBTADVSTOP", <<>>, IF o = "ok" THEN 0 ELSE -1) >>

\* the value the native stop_advertising body returns: 0, or -errno
StopReturnNative(adv, o) ==
  IF adv = 0 THEN 0 ELSE IF o = "ok" THEN 0 ELSE -1

\* native rust_ble_wrapper_init; o: socket() succeeds or fails
rust_ble_wrapper_init_native(o) ==
  /\ IF AlreadyInitialized(g_ble_initialized)
       THEN /\ Done("init", <<>>, -EALREADY, <<>>)
            /\ UNCHANGED <<g_ble_initialized, g_bt_sockfd, g_gatt_registered>>
       ELSE IF o = "ok"
         THEN /\ Done("init", <<>>, 0, << Call("socket", <<>>, NativeFd) >>)
              /\ g_bt_sockfd' = NativeFd
              /\ g_gatt_registered' = 1
              /\ g_ble_initialized' = 1
         ELSE /\ Done("init", <<>>, -1, << Call("socket", <<>>, -1) >>)
              /\ g_bt_sockfd' = -1
              /\ UNCHANGED <<g_ble_initialized, g_gatt_registered>>
  /\ UNCHANGED <<g_ble_advertising, g_device_name>>
  /\ NativeUnchanged

\* native rust_ble_wrapper_deinit; o: the outcome of the stop ioctl
rust_ble_wrapper_deinit_native(o) ==
  /\ IF DeinitNotInitialized(g_ble_initialized)
       THEN /\ Done("deinit", <<>>, -ENODEV, <<>>)
            /\ UNCHANGED <<g_ble_initialized, g_ble_advertising, g_bt_sockfd>>
       ELSE /\ Done("deinit", <<>>, 0,
                    StopCallsNative(g_ble_advertising, o)
                      \o (IF g_bt_sockfd >= 0
                            THEN << Call("close", <<g_bt_sockfd>>, 0) >> ELSE <<>>))
            /\ g_ble_advertising' = StopAdvertisingNative(g_ble_advertising, o)
            /\ g_bt_sockfd' = -1
            /\ g_ble_initialized' = 0
  /\ UNCHANGED <<g_device_name, g_gatt_registered>>
  /\ NativeUnchanged

\* native rust_ble_wrapper_start_advertising; o: the outcome of the start ioctl
rust_ble_wrapper_start_advertising_native(name, o) ==
  /\ IF StartNotInitialized(g_ble_initialized)
       THEN /\ Done("start_advertising", name, -ENODEV, <<>>)
            /\ UNCHANGED <<g_ble_advertising, g_device_name>>
       ELSE IF g_ble_advertising # 0
         THEN /\ Done("start_advertising", name, 0, <<>>)
              /\ UNCHANGED <<g_ble_advertising, g_device_name>>
         ELSE LET newname == IF name # <<>> THEN Strncpy(name, DEVICE_NAME_MAX)
                                           ELSE g_device_name
              IN  /\ g_device_name' = newname
                  /\ Done("start_advertising", name, IF o = "ok" THEN 0 ELSE -1,
                          << Call("ioctl_SIOCBTADVSTART", newname,
                                  IF o = "ok" THEN 0 ELSE -1) >>)
                  /\ g_ble_advertising' = IF o = "ok" THEN 1 ELSE g_ble_advertising
  /\ UNCHANGED <<g_ble_initialized, g_bt_sockfd, g_gatt_registered>>
  /\ NativeUnchanged

\* native rust_ble_wrapper_stop_advertising; o: the outcome of the stop ioctl
rust_ble_wrapper_stop_advertising_native(o) ==
  /\ IF StopNotInitialized(g_ble_initialized)
       THEN /\ Done("stop_advertising", <<>>, -ENODEV, <<>>)
            /\ UNCHANGED g_ble_advertising
       ELSE /\ Done("stop_advertising", <<>>,
                    StopReturnNative(g_ble_advertising, o),
                    StopCallsNative(g_ble_advertising, o))
            /\ g_ble_advertising' = StopAdvertisingNative(g_ble_advertising, o)
  /\ UNCHANGED <<g_ble_initialized, g_device_name, g_bt_sockfd, g_gatt_registered>>
  /\ NativeUnchanged

\* native rust_ble_wrapper_is_connected: return 0;
rust_ble_wrapper_is_connected_native ==
  /\ Done("is_connected", <<>>, 0, <<>>)
  /\ UNCHANGED <<g_ble_initialized, g_ble_advertising, g_device_name,
                 g_bt_sockfd, g_gatt_registered>>
  /\ NativeUnchanged

\* ------------------------------------------- statement by statement

\* The application thread runs rust_ble_wrapper_start_advertising and the host
\* thread runs ble_on_sync, one statement at a time; the flags are volatile
\* ints read and written without a lock.

Threads == {"app", "host"}

Goto(t, l) == pc' = [pc EXCEPT ![t] = l]

\* the call is entered: if (!g_ble_initialized) return -ENODEV;
AppCallStart(name) ==
  /\ ~fault
  /\ pc.app = "idle"
  /\ app_name' = name
  /\ IF StartNotInitialized(g_ble_initialized)
       THEN /\ Goto("app", "idle")
            /\ op' = "start_advertising"
            /\ arg' = name
            /\ ret' = -ENODEV
       ELSE /\ Goto("app", "set_name")
            /\ UNCHANGED <<mbox, cpy, nativevars, op, arg, ret>>
  /\ UNCHANGED <<mbox, cpy, nativevars, progvars, calls, pre, sync_seen, req_name, out, gatthist, ad, race>>

\* if (name != NULL && name[0] != '\0') { strncpy; ble_svc_gap_device_name_set }
AppSetName ==
  /\ ~fault
  /\ pc.app = "set_name"
  /\ IF app_name # <<>>
       THEN /\ g_device_name' = Strncpy(app_name, DEVICE_NAME_MAX)
            /\ svc_gap_device_name' = Strncpy(app_name, DEVICE_NAME_MAX)
       ELSE UNCHANGED <<mbox, cpy, nativevars, g_device_name, svc_gap_device_name>>
  /\ Goto("app", "test_synced")
  /\ UNCHANGED <<mbox, cpy, nativevars, g_ble_initialized, g_ble_host_synced, g_ble_advertising,
                 g_ble_connected, g_conn_handle, g_pending_adv, n_hci_threads,
                 n_host_threads, fault, gattvars, ghostvars, ad, app_name, race>>

\* if (g_ble_host_synced)
AppTestSynced ==
  /\ ~fault
  /\ pc.app = "test_synced"
  /\ IF HostSynced(g_ble_host_synced)
       THEN Goto("app", "do_start")
       ELSE Goto("app", "set_pending")
  /\ UNCHANGED <<mbox, cpy, nativevars, progvars, ghostvars, ad, app_name, race>>

\* g_pending_adv = 1;
AppSetPending ==
  /\ ~fault
  /\ pc.app = "set_pending"
  /\ g_pending_adv' = 1
  /\ Goto("app", "return")
  /\ UNCHANGED <<mbox, cpy, nativevars, g_ble_initialized, g_ble_host_synced, g_ble_advertising,
                 g_ble_connected, g_conn_handle, g_device_name,
                 svc_gap_device_name, n_hci_threads, n_host_threads, fault,
                 gattvars, ghostvars, ad, app_name, race>>

\* return 0;
AppReturn ==
  /\ ~fault
  /\ pc.app = "return"
  /\ Goto("app", "idle")
  /\ op' = "start_advertising"
  /\ arg' = app_name
  /\ ret' = 0
  /\ race' = [race EXCEPT !.requested = TRUE]
  /\ UNCHANGED <<mbox, cpy, nativevars, progvars, calls, pre, sync_seen, req_name, out, gatthist, ad,
                 app_name>>

\* ble_on_sync is entered: the address steps, up to g_ble_host_synced = 1
HostSyncAddr(a) ==
  /\ ~fault
  /\ HostThreadRunning
  /\ pc.host = "idle"
  /\ IF SyncReturnsEarly(a)
       THEN Goto("host", "idle")
       ELSE Goto("host", "set_synced")
  /\ UNCHANGED <<mbox, cpy, nativevars, progvars, ghostvars, ad, app_name, race>>

\* g_ble_host_synced = 1;
HostSetSynced ==
  /\ ~fault
  /\ pc.host = "set_synced"
  /\ g_ble_host_synced' = 1
  /\ Goto("host", "test_pending")
  /\ UNCHANGED <<mbox, cpy, nativevars, g_ble_initialized, g_ble_advertising, g_ble_connected,
                 g_conn_handle, g_pending_adv, g_device_name,
                 svc_gap_device_name, n_hci_threads, n_host_threads, fault,
                 gattvars, ghostvars, ad, app_name, race>>

\* if (g_pending_adv)
HostTestPending ==
  /\ ~fault
  /\ pc.host = "test_pending"
  /\ IF PendingAdv(g_pending_adv)
       THEN Goto("host", "clear_pending")
       ELSE Goto("host", "return")
  /\ UNCHANGED <<mbox, cpy, nativevars, progvars, ghostvars, ad, app_name, race>>

\* g_pending_adv = 0;
HostClearPending ==
  /\ ~fault
  /\ pc.host = "clear_pending"
  /\ g_pending_adv' = 0
  /\ Goto("host", "do_start")
  /\ UNCHANGED <<mbox, cpy, nativevars, g_ble_initialized, g_ble_host_synced, g_ble_advertising,
                 g_ble_connected, g_conn_handle, g_device_name,
                 svc_gap_device_name, n_hci_threads, n_host_threads, fault,
                 gattvars, ghostvars, ad, app_name, race>>

\* ble_on_sync returns
HostReturn ==
  /\ ~fault
  /\ pc.host = "return"
  /\ Goto("host", "idle")
  /\ op' = "on_sync"
  /\ arg' = <<>>
  /\ ret' = 0
  /\ race' = [race EXCEPT !.synced = TRUE]
  /\ UNCHANGED <<mbox, cpy, nativevars, progvars, calls, pre, sync_seen, req_name, out, gatthist, ad,
                 app_name>>

\* do_start_advertising: ad[] is built from g_device_name; a name too long
\* for ad[] is written past its end, which may bring the task down
DoStartBuild(t, crash) ==
  /\ ~fault
  /\ pc[t] = "do_start"
  /\ ad' = [ad EXCEPT ![t] = AdPayload(g_device_name)]
  /\ fault' = (crash /\ AdOverrun(g_device_name) > 0)
  /\ Goto(t, "set_data")
  /\ UNCHANGED <<mbox, cpy, nativevars, g_ble_initialized, g_ble_host_synced, g_ble_advertising,
                 g_ble_connected, g_conn_handle, g_pending_adv, g_device_name,
                 svc_gap_device_name, n_hci_threads, n_host_threads, gattvars,
                 ghostvars, app_name, race>>

\* rc = ble_gap_adv_set_data(ad, ad_len); if (rc != 0) return;
DoStartSetData(t, rc) ==
  /\ ~fault
  /\ pc[t] = "set_data"
  /\ Len(ad[t]) > BLE_HS_ADV_MAX_SZ => rc # 0
  /\ IF rc # 0
       THEN /\ Goto(t, "return")
            /\ race' = [race EXCEPT !.rejected = TRUE]
       ELSE /\ Goto(t, "adv_start")
            /\ UNCHANGED race
  /\ UNCHANGED <<mbox, cpy, nativevars, progvars, ghostvars, ad, app_name>>

\* rc = ble_gap_adv_start(...); if (rc != 0) return;
DoStartAdvStart(t, rc) ==
  /\ ~fault
  /\ pc[t] = "adv_start"
  /\ IF rc # 0
       THEN /\ Goto(t, "return")
            /\ race' = [race EXCEPT !.rejected = TRUE]
       ELSE /\ Goto(t, "set_advertising")
            /\ UNCHANGED race
  /\ UNCHANGED <<mbox, cpy, nativevars, progvars, ghostvars, ad, app_name>>

\* g_ble_advertising = 1;
DoStartSetAdvertising(t) ==
  /\ ~fault
  /\ pc[t] = "set_advertising"
  /\ g_ble_advertising' = 1
  /\ Goto(t, "return")
  /\ UNCHANGED <<mbox, cpy, nativevars, g_ble_initialized, g_ble_host_synced, g_ble_connected,
                 g_conn_handle, g_pending_adv, g_device_name,
                 svc_gap_device_name, n_hci_threads, n_host_threads, fault,
                 gattvars, ghostvars, ad, app_name, race>>

\* rust_ble_wrapper_init, called before any other function
RaceInit ==
  /\ pc.app = "idle"
  /\ g_ble_initialized = 0
  /\ rust_ble_wrapper_init("ok")

\* the name arguments of the interleaved calls: none, a short name and one
\* whose payload does not fit ad[]
RaceNames == { <<>>, <<65, 66>>, Rep(67, 27) }

\* ------------------------------- the command buffer, statement by statement

\* The application thread runs rust_ble_wrapper_gatt_get_command and the host
\* thread runs gatt_chr_access for a peer write, one statement at a time;
\* g_gatt_command and g_gatt_command_len are shared without a lock.

\* the commands the peer writes: "de" and "abc"
MboxData == { <<100, 101>>, <<97, 98, 99>> }

\* the buf_len arguments: a buffer with room for every command
MboxBufLens == {GATT_COMMAND_SIZE}

\* ble_hs_mbuf_to_flat: the copy made and 0 returned, or a failure before it
MboxFlatOutcomes == {"ok", "fail_before_copy"}

MboxUnchanged ==
  UNCHANGED <<nimblevars, g_gatt_read_msg, calls, pre, sync_seen, req_name,
              scen, lost, ad, app_name, race, cpy, nativevars>>

\* int len = g_gatt_command_len; if (len == 0 || ...) return 0;
\* if (len > buf_len - 1) len = buf_len - 1;
TakeReadLen(buf_len) ==
  /\ ~fault
  /\ pc.app = "idle"
  /\ g_ble_initialized = 1
  /\ LET len0 == g_gatt_command_len
         len  == IF len0 > buf_len - 1 THEN buf_len - 1 ELSE len0
     IN  IF len0 = 0 \/ buf_len <= 0
           THEN /\ op' = "gatt_get_command"
                /\ ret' = 0
                /\ out' = <<>>
                /\ mbox' = [mbox EXCEPT !.len = 0, !.buf = <<>>]
                /\ UNCHANGED pc
           ELSE /\ mbox' = [mbox EXCEPT !.len = len, !.buf = <<>>]
                /\ Goto("app", "take_copy")
                /\ UNCHANGED <<op, ret, out>>
  /\ arg' = <<buf_len>>
  /\ UNCHANGED <<g_gatt_command, g_gatt_command_len, last_write>>
  /\ MboxUnchanged

\* memcpy(buf, g_gatt_command, len); buf[len] = '\0';
TakeCopy ==
  /\ ~fault
  /\ pc.app = "take_copy"
  /\ mbox' = [mbox EXCEPT !.buf = SubSeq(g_gatt_command, 1, mbox.len)]
  /\ Goto("app", "take_clear")
  /\ UNCHANGED <<g_gatt_command, g_gatt_command_len, last_write, op, arg, ret, out>>
  /\ MboxUnchanged

\* g_gatt_command_len = 0; dropped: the command this clears is one the buffer
\* handed to the caller does not hold
TakeClear ==
  /\ ~fault
  /\ pc.app = "take_clear"
  /\ g_gatt_command_len' = CommandLenAfterTake(g_gatt_command_len)
  /\ mbox' = [mbox EXCEPT !.dropped =
                mbox.dropped \/ (g_gatt_command_len > 0 /\ last_write # mbox.buf)]
  /\ Goto("app", "take_return")
  /\ UNCHANGED <<g_gatt_command, last_write, op, arg, ret, out>>
  /\ MboxUnchanged

\* return len;
TakeReturn ==
  /\ ~fault
  /\ pc.app = "take_return"
  /\ op' = "gatt_get_command"
  /\ ret' = mbox.len
  /\ out' = mbox.buf
  /\ Goto("app", "idle")
  /\ UNCHANGED <<g_gatt_command, g_gatt_command_len, last_write, arg, mbox>>
  /\ MboxUnchanged

\* uint16_t len = OS_MBUF_PKTLEN(ctxt->om), cut to sizeof(g_gatt_command) - 1
WriteReadLen(data) ==
  /\ ~fault
  /\ HostThreadRunning
  /\ pc.host = "idle"
  /\ mbox' = [mbox EXCEPT !.om = data, !.wlen = WriteLen(data)]
  /\ Goto("host", "write_copy")
  /\ UNCHANGED <<g_gatt_command, g_gatt_command_len, last_write, op, arg, ret, out>>
  /\ MboxUnchanged

\* rc = ble_hs_mbuf_to_flat(ctxt->om, g_gatt_command, len, NULL);
\* if (rc != 0) return BLE_ATT_ERR_UNLIKELY;
WriteCopy(o) ==
  /\ ~fault
  /\ pc.host = "write_copy"
  /\ IF o = "ok"
       THEN /\ g_gatt_command' =
                 Memcpy(g_gatt_command, SubSeq(mbox.om, 1, mbox.wlen))
            /\ Goto("host", "write_terminate")
       ELSE /\ Goto("host", "idle")
            /\ UNCHANGED g_gatt_command
  /\ UNCHANGED <<g_gatt_command_len, last_write, op, arg, ret, out, mbox>>
  /\ MboxUnchanged

\* g_gatt_command[len] = '\0';
WriteTerminate ==
  /\ ~fault
  /\ pc.host = "write_terminate"
  /\ g_gatt_command' = SetByte(g_gatt_command, mbox.wlen, 0)
  /\ Goto("host", "write_len")
  /\ UNCHANGED <<g_gatt_command_len, last_write, op, arg, ret, out, mbox>>
  /\ MboxUnchanged

\* g_gatt_command_len = len; return 0;
WriteSetLen ==
  /\ ~fault
  /\ pc.host = "write_len"
  /\ g_gatt_command_len' = mbox.wlen
  /\ last_write' = SubSeq(mbox.om, 1, mbox.wlen)
  /\ Goto("host", "idle")
  /\ UNCHANGED <<g_gatt_command, op, arg, ret, out, mbox>>
  /\ MboxUnchanged

\* --------------------------- stop_advertising against a resume, by statement

\* The application thread runs rust_ble_wrapper_stop_advertising and the host
\* thread runs ble_gap_event for a disconnect or a failed connect, one
\* statement at a time; g_ble_advertising is shared without a lock. calls
\* collects the transport calls in the order they are made.

StopUnchanged ==
  UNCHANGED <<g_ble_initialized, g_ble_host_synced, g_conn_handle,
              g_device_name, svc_gap_device_name, n_hci_threads,
              n_host_threads, fault, gattvars, pre, sync_seen, req_name, out,
              gatthist, arg, app_name, mbox, cpy, nativevars>>

\* both threads between calls, and stop_advertising not called yet
StopQuiet ==
  /\ pc.app = "idle"
  /\ pc.host = "idle"
  /\ ~race.stop_called

\* what comes before the stop: init, a sync, a start with no name, a connect
StopSetupInit ==
  /\ StopQuiet
  /\ g_ble_initialized = 0
  /\ rust_ble_wrapper_init("ok")

StopSetupSync ==
  /\ StopQuiet
  /\ ble_on_sync("ok")

StopSetupStart ==
  /\ StopQuiet
  /\ rust_ble_wrapper_start_advertising(<<>>)

StopSetupConnect ==
  /\ StopQuiet
  /\ ble_gap_event_connect(0, 1)

\* rust_ble_wrapper_stop_advertising: if (!g_ble_advertising) return 0;
StopTestAdvertising ==
  /\ ~fault
  /\ pc.app = "idle"
  /\ g_ble_initialized = 1
  /\ ~race.stop_called
  /\ IF NotAdvertising(g_ble_advertising)
       THEN /\ op' = "stop_advertising"
            /\ ret' = 0
            /\ race' = [race EXCEPT !.stop_called = TRUE, !.stop_returned = TRUE]
            /\ UNCHANGED pc
       ELSE /\ Goto("app", "stop_call")
            /\ race' = [race EXCEPT !.stop_called = TRUE]
            /\ UNCHANGED <<op, ret>>
  /\ UNCHANGED <<g_ble_advertising, g_ble_connected, g_pending_adv, calls, ad>>
  /\ StopUnchanged

\* ble_gap_adv_stop();
StopCallAdvStop ==
  /\ ~fault
  /\ pc.app = "stop_call"
  /\ calls' = Append(calls, Call("ble_gap_adv_stop", <<>>, 0))
  /\ Goto("app", "stop_clear_advertising")
  /\ UNCHANGED <<g_ble_advertising, g_ble_connected, g_pending_adv, op, ret, ad,
                 race>>
  /\ StopUnchanged

\* g_ble_advertising = 0;
StopClearAdvertising ==
  /\ ~fault
  /\ pc.app = "stop_clear_advertising"
  /\ g_ble_advertising' = 0
  /\ Goto("app", "stop_clear_pending")
  /\ UNCHANGED <<g_ble_connected, g_pending_adv, op, ret, calls, ad, race>>
  /\ StopUnchanged

\* g_pending_adv = 0;
StopClearPending ==
  /\ ~fault
  /\ pc.app = "stop_clear_pending"
  /\ g_pending_adv' = 0
  /\ Goto("app", "stop_return")
  /\ UNCHANGED <<g_ble_advertising, g_ble_connected, op, ret, calls, ad, race>>
  /\ StopUnchanged

\* return 0;
StopReturn ==
  /\ ~fault
  /\ pc.app = "stop_return"
  /\ op' = "stop_advertising"
  /\ ret' = 0
  /\ race' = [race EXCEPT !.stop_returned = TRUE]
  /\ Goto("app", "idle")
  /\ UNCHANGED <<g_ble_advertising, g_ble_connected, g_pending_adv, calls, ad>>
  /\ StopUnchanged

\* ble_gap_event, case BLE_GAP_EVENT_DISCONNECT: g_ble_connected = 0;
EventDisconnect ==
  /\ ~fault
  /\ HostThreadRunning
  /\ pc.host = "idle"
  /\ race.events < MaxEvents
  /\ g_ble_connected' = 0
  /\ race' = [race EXCEPT !.event = "gap_disconnect", !.events = @ + 1]
  /\ Goto("host", "event_test")
  /\ UNCHANGED <<g_ble_advertising, g_pending_adv, op, ret, calls, ad>>
  /\ StopUnchanged

\* ble_gap_event, case BLE_GAP_EVENT_CONNECT with a non-zero status
EventConnectFailed ==
  /\ ~fault
  /\ HostThreadRunning
  /\ pc.host = "idle"
  /\ race.events < MaxEvents
  /\ race' = [race EXCEPT !.event = "gap_connect", !.events = @ + 1]
  /\ Goto("host", "event_test")
  /\ UNCHANGED <<g_ble_advertising, g_ble_connected, g_pending_adv, op, ret,
                 calls, ad>>
  /\ StopUnchanged

\* Resume advertising: if (g_ble_advertising) do_start_advertising();
EventTestAdvertising ==
  /\ ~fault
  /\ pc.host = "event_test"
  /\ IF ResumeAdvertising(g_ble_advertising)
       THEN Goto("host", "event_build")
       ELSE Goto("host", "event_return")
  /\ UNCHANGED <<g_ble_advertising, g_ble_connected, g_pending_adv, op, ret,
                 calls, ad, race>>
  /\ StopUnchanged

\* do_start_advertising: ad[] is built from g_device_name (here a name that
\* fits)
EventBuild ==
  /\ ~fault
  /\ pc.host = "event_build"
  /\ AdOverrun(g_device_name) = 0
  /\ ad' = [ad EXCEPT !.host = AdPayload(g_device_name)]
  /\ Goto("host", "event_set_data")
  /\ UNCHANGED <<g_ble_advertising, g_ble_connected, g_pending_adv, op, ret,
                 calls, race>>
  /\ StopUnchanged

\* rc = ble_gap_adv_set_data(ad, ad_len); if (rc != 0) return;
EventSetData(rc) ==
  /\ ~fault
  /\ pc.host = "event_set_data"
  /\ calls' = Append(calls, Call("ble_gap_adv_set_data", ad.host, rc))
  /\ IF rc # 0
       THEN Goto("host", "event_return")
       ELSE Goto("host", "event_adv_start")
  /\ UNCHANGED <<g_ble_advertising, g_ble_connected, g_pending_adv, op, ret, ad,
                 race>>
  /\ StopUnchanged

\* rc = ble_gap_adv_start(...); if (rc != 0) return;
EventAdvStart(rc) ==
  /\ ~fault
  /\ pc.host = "event_adv_start"
  /\ calls' = Append(calls, Call("ble_gap_adv_start", <<>>, rc))
  /\ IF rc # 0
       THEN Goto("host", "event_return")
       ELSE Goto("host", "event_set_advertising")
  /\ UNCHANGED <<g_ble_advertising, g_ble_connected, g_pending_adv, op, ret, ad,
                 race>>
  /\ StopUnchanged

\* g_ble_advertising = 1;
EventSetAdvertising ==
  /\ ~fault
  /\ pc.host = "event_set_advertising"
  /\ g_ble_advertising' = 1
  /\ Goto("host", "event_return")
  /\ UNCHANGED <<g_ble_connected, g_pending_adv, op, ret, calls, ad, race>>
  /\ StopUnchanged

\* break; return 0;
EventReturn ==
  /\ ~fault
  /\ pc.host = "event_return"
  /\ op' = race.event
  /\ ret' = 0
  /\ Goto("host", "idle")
  /\ UNCHANGED <<g_ble_advertising, g_ble_connected, g_pending_adv, calls, ad,
                 race>>
  /\ StopUnchanged

\* ------------------------------ the device name, written while it is read

\* The application thread runs rust_ble_wrapper_start_advertising(name), whose
\* strncpy writes g_device_name byte by byte, and the host thread runs
\* do_start_advertising for a disconnect or a sync, which reads g_device_name
\* with three strlen calls and a memcpy; there is no lock.

\* the name arguments of the interleaved call: none and "AB"
CopyNames == { <<>>, <<65, 66>> }

\* what a byte of ad[] never written may hold
UninitBytes == {0, 255}

\* the application thread is inside strncpy
InCopy(l) == l \in {"copy_byte", "copy_terminate"}

\* the host thread is at one of its reads of g_device_name
InRead(l) == l \in {"name_len", "name_copy_len", "name_memcpy", "name_add_len"}

\* a read and a write of g_device_name are both about to happen
Overlap(p) == InCopy(p.app) /\ InRead(p.host)

\* thread t moves to l; c: cpy as the step leaves it
NameGoto(t, l, c) ==
  LET p == [pc EXCEPT ![t] = l]
  IN  /\ pc' = p
      /\ cpy' = [c EXCEPT !.raced = @ \/ Overlap(p)]

NameUnchanged ==
  UNCHANGED <<g_ble_initialized, g_conn_handle, n_hci_threads, n_host_threads,
              fault, gattvars, pre, sync_seen, req_name, out, gatthist, arg,
              mbox, nativevars>>

nameflags ==
  <<g_ble_host_synced, g_ble_advertising, g_ble_connected, g_pending_adv>>

namehist == <<op, ret, calls>>

\* what comes before: init, and a start with no name
NameSetupInit ==
  /\ pc.app = "idle"
  /\ pc.host = "idle"
  /\ g_ble_initialized = 0
  /\ rust_ble_wrapper_init("ok")

NameSetupStart ==
  /\ pc.app = "idle"
  /\ pc.host = "idle"
  /\ g_ble_initialized = 1
  /\ rust_ble_wrapper_start_advertising(<<>>)

\* start_advertising is entered: if (name != NULL && name[0] != '\0')
CopyCallStart(name) ==
  /\ ~fault
  /\ pc.app = "idle"
  /\ g_ble_initialized = 1
  /\ app_name' = name
  /\ NameGoto("app", IF name # <<>> THEN "copy_byte" ELSE "copy_rest",
              [cpy EXCEPT !.i = 0])
  /\ UNCHANGED <<nameflags, namehist, g_device_name, svc_gap_device_name, ad,
                 race>>
  /\ NameUnchanged

\* strncpy(g_device_name, name, sizeof(g_device_name) - 1), one byte: the
\* next byte of name, or a NUL once name has ended
CopyByte ==
  /\ ~fault
  /\ pc.app = "copy_byte"
  /\ LET b   == IF cpy.i < Len(app_name) THEN app_name[cpy.i + 1] ELSE 0
         buf == SetByte(cpy.buf, cpy.i, b)
     IN  /\ g_device_name' = CStr(buf)
         /\ NameGoto("app",
                     IF cpy.i + 1 < DEVICE_NAME_MAX THEN "copy_byte"
                                                    ELSE "copy_terminate",
                     [cpy EXCEPT !.buf = buf, !.i = @ + 1])
  /\ UNCHANGED <<nameflags, namehist, svc_gap_device_name, ad, app_name, race>>
  /\ NameUnchanged

\* g_device_name[sizeof(g_device_name) - 1] = '\0';
CopyTerminate ==
  /\ ~fault
  /\ pc.app = "copy_terminate"
  /\ LET buf == SetByte(cpy.buf, DEVICE_NAME_MAX, 0)
     IN  /\ g_device_name' = CStr(buf)
         /\ NameGoto("app", "copy_gap_name", [cpy EXCEPT !.buf = buf])
  /\ UNCHANGED <<nameflags, namehist, svc_gap_device_name, ad, app_name, race>>
  /\ NameUnchanged

\* ble_svc_gap_device_name_set(g_device_name);
CopyGapNameSet ==
  /\ ~fault
  /\ pc.app = "copy_gap_name"
  /\ svc_gap_device_name' = g_device_name
  /\ NameGoto("app", "copy_rest", cpy)
  /\ UNCHANGED <<nameflags, namehist, g_device_name, ad, app_name, race>>
  /\ NameUnchanged

\* the rest of start_advertising: do_start_advertising when the host has
\* synced, g_pending_adv = 1 when not; return 0
CopyRest ==
  /\ ~fault
  /\ pc.app = "copy_rest"
  /\ AdOverrun(g_device_name) = 0
  /\ IF HostSynced(g_ble_host_synced)
       THEN \E o \in StartOutcomes(g_device_name) :
              /\ calls' = StartCalls(g_device_name, o)
              /\ g_ble_advertising' = StartAdvertising(g_ble_advertising, o)
              /\ UNCHANGED g_pending_adv
       ELSE /\ calls' = <<>>
            /\ g_pending_adv' = 1
            /\ UNCHANGED g_ble_advertising
  /\ op' = "start_advertising"
  /\ ret' = 0
  /\ NameGoto("app", "idle", cpy)
  /\ UNCHANGED <<g_ble_host_synced, g_ble_connected, g_device_name,
                 svc_gap_device_name, ad, app_name, race>>
  /\ NameUnchanged

\* ble_gap_event, case BLE_GAP_EVENT_DISCONNECT, up to do_start_advertising
NameDisconnect ==
  /\ ~fault
  /\ HostThreadRunning
  /\ pc.host = "idle"
  /\ g_ble_connected' = 0
  /\ race' = [race EXCEPT !.event = "gap_disconnect"]
  /\ IF ResumeAdvertising(g_ble_advertising)
       THEN /\ NameGoto("host", "name_len", cpy)
            /\ UNCHANGED namehist
       ELSE /\ NameGoto("host", "idle", cpy)
            /\ op' = "gap_disconnect"
            /\ ret' = 0
            /\ calls' = <<>>
  /\ UNCHANGED <<g_ble_host_synced, g_ble_advertising, g_pending_adv,
                 g_device_name, svc_gap_device_name, ad, app_name>>
  /\ NameUnchanged

\* ble_on_sync with every address step succeeding, up to
\* do_start_advertising
NameSync ==
  /\ ~fault
  /\ HostThreadRunning
  /\ pc.host = "idle"
  /\ g_ble_host_synced' = 1
  /\ race' = [race EXCEPT !.event = "on_sync"]
  /\ IF PendingAdv(g_pending_adv)
       THEN /\ g_pending_adv' = 0
            /\ NameGoto("host", "name_len", cpy)
            /\ UNCHANGED namehist
       ELSE /\ NameGoto("host", "idle", cpy)
            /\ op' = "on_sync"
            /\ ret' = 0
            /\ calls' = <<>>
            /\ UNCHANGED g_pending_adv
  /\ UNCHANGED <<g_ble_advertising, g_ble_connected, g_device_name,
                 svc_gap_device_name, ad, app_name>>
  /\ NameUnchanged

\* ad[ad_len++] = strlen(g_device_name) + 1;
NameReadLen ==
  /\ ~fault
  /\ pc.host = "name_len"
  /\ NameGoto("host", "name_copy_len", [cpy EXCEPT !.len1 = Len(g_device_name)])
  /\ UNCHANGED <<nameflags, namehist, g_device_name, svc_gap_device_name, ad,
                 app_name, race>>
  /\ NameUnchanged

\* the strlen(g_device_name) that is memcpy's third argument
NameReadCopyLen ==
  /\ ~fault
  /\ pc.host = "name_copy_len"
  /\ NameGoto("host", "name_memcpy", [cpy EXCEPT !.n = Len(g_device_name)])
  /\ UNCHANGED <<nameflags, namehist, g_device_name, svc_gap_device_name, ad,
                 app_name, race>>
  /\ NameUnchanged

\* memcpy(&ad[ad_len], g_device_name, n): n bytes of the array as it is now
NameMemcpy ==
  /\ ~fault
  /\ pc.host = "name_memcpy"
  /\ ad' = [ad EXCEPT !.host =
              <<2, BLE_HS_ADV_TYPE_FLAGS, AD_FLAGS, (cpy.len1 + 1) % 256,
                BLE_HS_ADV_TYPE_COMP_NAME>> \o SubSeq(cpy.buf, 1, cpy.n)]
  /\ NameGoto("host", "name_add_len", cpy)
  /\ UNCHANGED <<nameflags, namehist, g_device_name, svc_gap_device_name,
                 app_name, race>>
  /\ NameUnchanged

\* ad_len += strlen(g_device_name);
NameAddLen ==
  /\ ~fault
  /\ pc.host = "name_add_len"
  /\ NameGoto("host", "name_set_data",
              [cpy EXCEPT !.ad_len = 5 + Len(g_device_name)])
  /\ UNCHANGED <<nameflags, namehist, g_device_name, svc_gap_device_name, ad,
                 app_name, race>>
  /\ NameUnchanged

\* rc = ble_gap_adv_set_data(ad, ad_len); if (rc != 0) return;
\* fill: what the bytes of ad[] below ad_len that memcpy did not write hold
NameSetData(rc, fill) ==
  /\ ~fault
  /\ pc.host = "name_set_data"
  /\ LET data == [k \in 1..cpy.ad_len |->
                    IF k <= Len(ad.host) THEN ad.host[k] ELSE fill]
     IN  calls' = << Call("ble_gap_adv_set_data", data, rc) >>
  /\ NameGoto("host", IF rc # 0 THEN "return" ELSE "adv_start", cpy)
  /\ UNCHANGED <<nameflags, op, ret, g_device_name, svc_gap_device_name, ad,
                 app_name, race>>
  /\ NameUnchanged

\* do_start_advertising and the handler return
NameReturn ==
  /\ ~fault
  /\ pc.host = "return"
  /\ op' = race.event
  /\ ret' = 0
  /\ ad' = [ad EXCEPT !.host = <<>>]
  /\ NameGoto("host", "idle", [cpy EXCEPT !.len1 = 0, !.n = 0, !.ad_len = 0])
  /\ UNCHANGED <<nameflags, calls, g_device_name, svc_gap_device_name, app_name,
                 race>>
  /\ NameUnchanged

\* --------------------------------------------------------- specification

Next ==
  \/ \E o \in InitOutcomes : rust_ble_wrapper_init(o)
  \/ rust_ble_wrapper_deinit
  \/ \E name \in NameArgs : rust_ble_wrapper_start_advertising(name)
  \/ rust_ble_wrapper_stop_advertising
  \/ rust_ble_wrapper_is_connected
  \/ \E a \in AddrOutcomes : ble_on_sync(a)
  \/ ble_on_reset
  \/ \E status \in {0, 1}, handle \in Handles : ble_gap_event_connect(status, handle)
  \/ ble_gap_event_disconnect
  \/ ble_gap_event_adv_complete
  \/ ble_gap_event_mtu

Spec == Init /\ [][Next]_vars

NextGatt ==
  \/ rust_ble_wrapper_init("ok")
  \/ \E data \in WriteData, o \in FlatOutcomes : gatt_chr_access_write(data, o)
  \/ \E appended \in BOOLEAN : gatt_chr_access_read(appended)
  \/ gatt_chr_access_other
  \/ \E has_buf \in BOOLEAN, buf_len \in BufLens :
       rust_ble_wrapper_gatt_get_command(has_buf, buf_len)
  \/ rust_ble_wrapper_gatt_has_command
  \/ \E msg \in ReadMsgs : rust_ble_wrapper_gatt_set_read_msg(msg)

SpecGatt == Init /\ [][NextGatt]_vars

NextRace ==
  \/ RaceInit
  \/ \E name \in RaceNames : AppCallStart(name)
  \/ AppSetName
  \/ AppTestSynced
  \/ AppSetPending
  \/ AppReturn
  \/ \E a \in AddrOutcomes : HostSyncAddr(a)
  \/ HostSetSynced
  \/ HostTestPending
  \/ HostClearPending
  \/ HostReturn
  \/ \E t \in Threads, crash \in BOOLEAN : DoStartBuild(t, crash)
  \/ \E t \in Threads, rc \in {0, 1} : DoStartSetData(t, rc)
  \/ \E t \in Threads, rc \in {0, 1} : DoStartAdvStart(t, rc)
  \/ \E t \in Threads : DoStartSetAdvertising(t)

SpecRace == Init /\ [][NextRace]_vars

NextMailbox ==
  \/ RaceInit
  \/ \E buf_len \in MboxBufLens : TakeReadLen(buf_len)
  \/ TakeCopy
  \/ TakeClear
  \/ TakeReturn
  \/ \E data \in MboxData : WriteReadLen(data)
  \/ \E o \in MboxFlatOutcomes : WriteCopy(o)
  \/ WriteTerminate
  \/ WriteSetLen

SpecMailbox == Init /\ [][NextMailbox]_vars

NextNative ==
  \/ \E o \in {"ok", "socket_fail"} : rust_ble_wrapper_init_native(o)
  \/ \E o \in IoctlOutcomes : rust_ble_wrapper_deinit_native(o)
  \/ \E name \in NameArgs, o \in IoctlOutcomes :
       rust_ble_wrapper_start_advertising_native(name, o)
  \/ \E o \in IoctlOutcomes : rust_ble_wrapper_stop_advertising_native(o)
  \/ rust_ble_wrapper_is_connected_native

SpecNative == Init /\ [][NextNative]_vars

NextStop ==
  \/ StopSetupInit
  \/ StopSetupSync
  \/ StopSetupStart
  \/ StopSetupConnect
  \/ StopTestAdvertising
  \/ StopCallAdvStop
  \/ StopClearAdvertising
  \/ StopClearPending
  \/ StopReturn
  \/ EventDisconnect
  \/ EventConnectFailed
  \/ EventTestAdvertising
  \/ EventBuild
  \/ \E rc \in {0, 1} : EventSetData(rc)
  \/ \E rc \in {0, 1} : EventAdvStart(rc)
  \/ EventSetAdvertising
  \/ EventReturn

SpecStop == Init /\ [][NextStop]_vars

NextName ==
  \/ NameSetupInit
  \/ NameSetupStart
  \/ \E name \in CopyNames : CopyCallStart(name)
  \/ CopyByte
  \/ CopyTerminate
  \/ CopyGapNameSet
  \/ CopyRest
  \/ NameDisconnect
  \/ NameSync
  \/ NameReadLen
  \/ NameReadCopyLen
  \/ NameMemcpy
  \/ NameAddLen
  \/ \E rc \in {0, 1}, fill \in UninitBytes : NameSetData(rc, fill)
  \/ \E rc \in {0, 1} : DoStartAdvStart("host", rc)
  \/ DoStartSetAdvertising("host")
  \/ NameReturn

SpecName == Init /\ [][NextName]_vars

\* ------------------------------------------------------------ properties

\* the indices of the calls of function fn in a list of transport calls
CallsOf(c, fn) == {i \in 1..Len(c) : c[i].fn = fn}

\* no part of the Start Advertising Action reached the transport
NoStartCall(c) ==
  /\ CallsOf(c, "ble_gap_adv_set_data") = {}
  /\ CallsOf(c, "ble_gap_adv_start") = {}

\* the Start Advertising Action was submitted to the transport exactly once:
\* one ble_gap_adv_set_data and, when the transport accepted the data, one
\* ble_gap_adv_start right after it
ExactlyOneStart(c) ==
  /\ Cardinality(CallsOf(c, "ble_gap_adv_set_data")) = 1
  /\ LET i == CHOOSE j \in CallsOf(c, "ble_gap_adv_set_data") : TRUE
     IN  CallsOf(c, "ble_gap_adv_start") = IF c[i].rc = 0 THEN {i + 1} ELSE {}

\* the transport accepted the start: both calls returned 0
StartAccepted(c) ==
  /\ CallsOf(c, "ble_gap_adv_start") # {}
  /\ \A i \in CallsOf(c, "ble_gap_adv_set_data") \cup CallsOf(c, "ble_gap_adv_start") :
       c[i].rc = 0

\* the complete-local-name field of advertising data, as a scanner reads it:
\* the flags field, then a length byte counting the type byte and the name
AdvertisedName(data) ==
  LET flagsEnd == 1 + data[1]
      nameLen  == data[flagsEnd + 1] - 1
  IN  SubSeq(data, flagsEnd + 3, flagsEnd + 2 + nameLen)

\* the name in the advertising data the transport was last given
SubmittedName(c) ==
  LET i == CHOOSE j \in CallsOf(c, "ble_gap_adv_set_data") :
             \A k \in CallsOf(c, "ble_gap_adv_set_data") : k <= j
  IN  AdvertisedName(c[i].data)

\* C1: start_advertising(name) while initialized and before the host has
\* synced returns 0, submits no start to the transport and records the request
\* as pending (PendingSync: g_pending_adv set, g_ble_advertising clear when no
\* sync has happened yet); the ble_on_sync that then reaches the sync point
\* submits the start exactly once, and the name it advertises is the name of
\* that request (the default "RustCam" when no request ever carried a name).
C1_DeferredStartReplayedOnSync ==
  /\ (op = "start_advertising" /\ pre.initialized = 1 /\ pre.host_synced = 0)
       => /\ ret = 0
          /\ NoStartCall(calls)
          /\ g_pending_adv = 1
          /\ g_ble_advertising = pre.advertising
          /\ (~sync_seen => g_ble_advertising = 0)
  /\ (op = "on_sync" /\ ret = 0 /\ pre.pending_adv = 1)
       => /\ ExactlyOneStart(calls)
          /\ g_pending_adv = 0
          /\ (req_name = <<>> => SubmittedName(calls) = DefaultDeviceName)
          /\ (req_name # <<>> /\ Len(req_name) <= DEVICE_NAME_MAX
                => SubmittedName(calls) = req_name)

\* C1 for names that fit ad[]: with a device name of at most 26 bytes the
\* deferred start is replayed as C1 says; every run that breaks C1 has written
\* past the end of ad[] in do_start_advertising.
C1_WhenNameFits ==
  AdOverrun(g_device_name) = 0 => C1_DeferredStartReplayedOnSync

C1_Witness ==
  /\ op = "on_sync"
  /\ ret = 0
  /\ pre.pending_adv = 1
  /\ pre.host_synced = 0
  /\ pre.advertising = 0
  /\ req_name = <<65, 66>>
  /\ StartAccepted(calls)
  /\ SubmittedName(calls) = <<65, 66>>
  /\ g_ble_advertising = 1

\* C3: a disconnect event clears g_ble_connected; with g_ble_advertising set
\* it submits the start to the transport exactly once, with g_ble_advertising
\* clear it makes no transport call.
C3_DisconnectResumesAdvertising ==
  op = "gap_disconnect"
    => /\ g_ble_connected = 0
       /\ (pre.advertising = 1 => ExactlyOneStart(calls))
       /\ (pre.advertising = 0 => calls = <<>>)

\* C3 for names that fit ad[]
C3_WhenNameFits ==
  AdOverrun(g_device_name) = 0 => C3_DisconnectResumesAdvertising

C3_Witness ==
  /\ op = "gap_disconnect"
  /\ pre.connected = 1
  /\ pre.advertising = 1
  /\ g_ble_connected = 0
  /\ StartAccepted(calls)

\* C4: a connect event with a non-zero status records no connection
\* (g_ble_connected and g_conn_handle keep their values, so is_connected still
\* returns 0 when it did); with g_ble_advertising set it submits the start to
\* the transport exactly once, with g_ble_advertising clear it makes no call.
C4_FailedConnectResumesAdvertising ==
  (op = "gap_connect" /\ arg[1] # 0)
    => /\ g_ble_connected = pre.connected
       /\ g_conn_handle = pre.conn_handle
       /\ (pre.advertising = 1 => ExactlyOneStart(calls))
       /\ (pre.advertising = 0 => calls = <<>>)

\* C4 for names that fit ad[]
C4_WhenNameFits ==
  AdOverrun(g_device_name) = 0 => C4_FailedConnectResumesAdvertising

C4_Witness ==
  /\ op = "gap_connect"
  /\ arg[1] # 0
  /\ pre.connected = 0
  /\ pre.conn_handle = 0
  /\ pre.advertising = 1
  /\ g_ble_connected = 0
  /\ g_conn_handle = 0
  /\ ExactlyOneStart(calls)

\* C5: g_ble_advertising is set only after some ble_on_sync has reached the
\* sync point (g_ble_host_synced = 1) earlier in the run.
C5_AdvertisingOnlyAfterSync ==
  g_ble_advertising # 0 => sync_seen

C5_Witness ==
  /\ g_ble_advertising = 1
  /\ g_ble_host_synced = 0
  /\ sync_seen

\* C6: stop_advertising with g_ble_advertising clear returns 0, makes no
\* transport call and leaves the module state as it was.
C6_StopWhenIdleIsNoOp ==
  (op = "stop_advertising" /\ pre.advertising = 0)
    => /\ ret = 0
       /\ calls = <<>>
       /\ State = pre

C6_Witness ==
  /\ op = "stop_advertising"
  /\ pre.initialized = 1
  /\ pre.advertising = 0
  /\ pre.pending_adv = 0
  /\ ret = 0

\* C7: init while initialized returns -EALREADY, and deinit while not
\* initialized returns -ENODEV; neither makes a transport call, spawns a thread
\* or changes the module state.
C7_DoubleInitAndEarlyDeinitRejected ==
  /\ (op = "init" /\ pre.initialized = 1)
       => /\ ret = -EALREADY
          /\ calls = <<>>
          /\ State = pre
  /\ (op = "deinit" /\ pre.initialized = 0)
       => /\ ret = -ENODEV
          /\ calls = <<>>
          /\ State = pre

C7_Witness ==
  /\ op = "init"
  /\ pre.initialized = 1
  /\ pre.advertising = 1
  /\ ret = -EALREADY
  /\ State = pre

\* C8: start_advertising while not initialized returns -ENODEV for every name,
\* makes no transport call and leaves g_device_name, g_pending_adv and
\* g_ble_advertising (the whole module state) as they were.
C8_StartRejectedWhenNotInitialized ==
  (op = "start_advertising" /\ pre.initialized = 0)
    => /\ ret = -ENODEV
       /\ calls = <<>>
       /\ State = pre

C8_Witness ==
  /\ op = "start_advertising"
  /\ pre.initialized = 0
  /\ sync_seen
  /\ arg # <<>>
  /\ arg # g_device_name
  /\ ret = -ENODEV

\* C9: start_advertising while initialized with g_ble_host_synced set submits
\* the start to the transport exactly once before it returns; when the
\* transport accepts it, g_ble_advertising is set and g_pending_adv is clear.
C9_StartWhenSyncedAdvertises ==
  (op = "start_advertising" /\ pre.initialized = 1 /\ pre.host_synced = 1)
    => /\ ExactlyOneStart(calls)
       /\ (StartAccepted(calls) => g_ble_advertising = 1 /\ g_pending_adv = 0)

\* C9 for names that fit ad[]
C9_WhenNameFits ==
  AdOverrun(g_device_name) = 0 => C9_StartWhenSyncedAdvertises

C9_Witness ==
  /\ op = "start_advertising"
  /\ pre.initialized = 1
  /\ pre.host_synced = 1
  /\ pre.advertising = 0
  /\ StartAccepted(calls)
  /\ g_ble_advertising = 1
  /\ g_pending_adv = 0

\* C10: the command buffer is last-write-wins and drained once. After two
\* stored non-empty writes c1 then c2, a take with room for the command returns
\* c2; a take right after that one returns 0 bytes; and no take ever returns a
\* command that was overwritten before it was taken (unless the peer has sent
\* it again since).
C10_MailboxLastWriteWins ==
  /\ (op = "gatt_get_command" /\ scen = 3)
       => (ret = Len(last_write) /\ out = last_write /\ ret > 0)
  /\ (op = "gatt_get_command" /\ scen = 4)
       => (ret = 0 /\ out = <<>>)
  /\ (op = "gatt_get_command" /\ ret > 0) => out # lost

C10_Witness ==
  /\ scen = 4
  /\ op = "gatt_get_command"
  /\ last_write = <<100, 101>>
  /\ lost = <<97, 98, 99>>
  /\ ret = 0

\* C2: with start_advertising and ble_on_sync interleaved statement by
\* statement, a start request that returned 0 is never lost: once the call has
\* returned and ble_on_sync has run to its end, with no transport call
\* rejected, g_ble_advertising is set and no request is left pending.
C2_StartRequestNeverLost ==
  (/\ pc.app = "idle"
   /\ pc.host = "idle"
   /\ ~fault
   /\ race.requested
   /\ race.synced
   /\ ~race.rejected)
    => (g_ble_advertising = 1 /\ ~(g_pending_adv = 1 /\ g_ble_host_synced = 1))

\* C3 and C4 break without any earlier write past ad[]: the 27-byte name was
\* stored by a deferred start (host reset), and the resume on a disconnect or
\* a failed connect is the first do_start_advertising to copy it
ResumeOverrunsFirst ==
  /\ op \in {"gap_disconnect", "gap_connect"}
  /\ fault
  /\ pre.host_synced = 0
  /\ pre.pending_adv = 1
  /\ pre.advertising = 1

\* C14: after a deinit that returned 0 the whole data model is back in its
\* initial condition: g_ble_advertising, g_pending_adv, g_ble_host_synced and
\* g_ble_connected are clear, the command buffer is empty, and g_device_name
\* and the read message hold their defaults.
C14_DeinitResetsDataModel ==
  (op = "deinit" /\ ret = 0)
    => /\ g_ble_advertising = 0
       /\ g_pending_adv = 0
       /\ g_ble_host_synced = 0
       /\ g_ble_connected = 0
       /\ g_gatt_command_len = 0
       /\ g_device_name = DefaultDeviceName
       /\ g_gatt_read_msg = DefaultReadMsg

\* C14, the part deinit does reset
C14_DeinitClearsItsFlags ==
  (op = "deinit" /\ ret = 0)
    => /\ g_ble_advertising = 0
       /\ g_ble_host_synced = 0
       /\ g_ble_initialized = 0

\* C15: init returns 0 only after it spawned both threads; when it fails,
\* g_ble_initialized stays clear and no thread it spawned is left running.
C15_InitFailureLeavesNoThread ==
  (op = "init" /\ pre.initialized = 0)
    => /\ ret = 0 => /\ n_hci_threads = pre.hci_threads + 1
                     /\ n_host_threads = pre.host_threads + 1
       /\ ret # 0 => /\ g_ble_initialized = 0
                     /\ n_hci_threads = pre.hci_threads
                     /\ n_host_threads = pre.host_threads

\* C15, the part that holds: 0 is returned only with both threads spawned,
\* and a failed init leaves g_ble_initialized clear
C15_InitSuccessSpawnsBoth ==
  (op = "init" /\ pre.initialized = 0)
    => /\ ret = 0 => /\ n_hci_threads = pre.hci_threads + 1
                     /\ n_host_threads = pre.host_threads + 1
       /\ ret # 0 => g_ble_initialized = 0

\* the transport rejected the Start Advertising Action
StartRejected(c) ==
  \E i \in CallsOf(c, "ble_gap_adv_set_data") \cup CallsOf(c, "ble_gap_adv_start") :
    c[i].rc # 0

\* C16: when the transport rejects the start in start_advertising, in a
\* disconnect event or in a failed connect event, the handler returns (the
\* task keeps running) and g_ble_advertising and g_pending_adv are as before.
C16_RejectedStartKeepsState ==
  (op \in {"start_advertising", "gap_disconnect", "gap_connect"}
     /\ StartRejected(calls))
    => /\ ~fault
       /\ g_ble_advertising = pre.advertising
       /\ g_pending_adv = pre.pending_adv

\* C16 for names that fit ad[]
C16_WhenNameFits ==
  AdOverrun(g_device_name) = 0 => C16_RejectedStartKeepsState

C16_Witness ==
  /\ op = "gap_disconnect"
  /\ StartRejected(calls)
  /\ AdOverrun(g_device_name) = 0
  /\ pre.advertising = 1
  /\ g_ble_advertising = 1

\* C17: when start_advertising, called initialized and synced, has its start
\* rejected by the transport, it returns an error, not 0.
C17_RejectedStartReturnsError ==
  (op = "start_advertising" /\ ~fault /\ StartRejected(calls)) => ret # 0

\* C18: stop_advertising never returns an error: it returns 0 from every
\* state, initialized or not, advertising or not, in both backends.
C18_StopNeverFails ==
  op = "stop_advertising" => ret = 0

\* C19: whatever name g_device_name holds (0 to 31 bytes), the advertising data
\* do_start_advertising builds and hands to ble_gap_adv_set_data is at most
\* BLE_HS_ADV_MAX_SZ (31) bytes long, and nothing is written past ad[].
C19_AdPayloadFits ==
  /\ ~fault
  /\ \A i \in CallsOf(calls, "ble_gap_adv_set_data") :
       Len(calls[i].data) <= BLE_HS_ADV_MAX_SZ

\* C19 for names of at most 26 bytes
C19_WhenNameFits ==
  Len(g_device_name) <= BLE_HS_ADV_MAX_SZ - Len(AdPayload(<<>>))
    => C19_AdPayloadFits

\* C20: is_connected returns g_ble_connected and changes nothing. A connect
\* event with status 0 sets g_ble_connected and records its handle, a
\* disconnect event clears g_ble_connected, and nothing else (a failed connect
\* included) changes g_ble_connected or g_conn_handle: so is_connected
\* returns 1 exactly when the last of these two events was the connect, and
\* g_conn_handle is then that event's handle.
C20_IsConnectedTracksEvents ==
  /\ op = "is_connected" => (ret = pre.connected /\ State = pre)
  /\ (op = "gap_connect" /\ arg[1] = 0)
       => (g_ble_connected = 1 /\ g_conn_handle = arg[2])
  /\ op = "gap_disconnect" => g_ble_connected = 0
  /\ ~(op = "gap_connect" /\ arg[1] = 0) /\ op # "gap_disconnect"
       => (g_ble_connected = pre.connected /\ g_conn_handle = pre.conn_handle)
  /\ g_ble_connected \in {0, 1}
  /\ g_ble_connected = 1 => g_conn_handle \in Handles

\* is_connected returns 1 after a connect event whose handle is recorded
C20_Witness ==
  /\ op = "is_connected"
  /\ ret = 1
  /\ g_conn_handle = MaxHandle
  /\ pre.conn_handle = MaxHandle

\* is_connected returns 0 after a disconnect that followed a connect
C20_WitnessDisconnected ==
  /\ op = "is_connected"
  /\ ret = 0
  /\ g_conn_handle \in Handles

\* C13: deinit while initialized returns 0 and leaves g_ble_initialized clear;
\* with g_ble_advertising set it calls ble_gap_adv_stop (its only transport
\* call) and clears g_ble_advertising, with g_ble_advertising clear it makes
\* no transport call.
C13_DeinitStopsAdvertising ==
  (op = "deinit" /\ pre.initialized = 1)
    => /\ ret = 0
       /\ g_ble_initialized = 0
       /\ g_ble_advertising = 0
       /\ (pre.advertising # 0
             => calls = << Call("ble_gap_adv_stop", <<>>, 0) >>)
       /\ (pre.advertising = 0 => calls = <<>>)

C13_Witness ==
  /\ op = "deinit"
  /\ pre.initialized = 1
  /\ pre.advertising = 1
  /\ ret = 0
  /\ CallsOf(calls, "ble_gap_adv_stop") = {1}
  /\ g_ble_initialized = 0
  /\ g_ble_advertising = 0

\* C12: gatt_set_read_msg always returns 0; with NULL or "" it resets the read
\* message to "Hello from RustCam!", with a non-empty message of at most 63
\* bytes it stores that message; no other function changes the read message,
\* and every peer read that is answered returns the read message, so every
\* read returns the message of the last gatt_set_read_msg until the next one.
C12_StatusPayloadSetThenRead ==
  /\ op = "gatt_set_read_msg"
       => /\ ret = 0
          /\ (arg = <<>> => g_gatt_read_msg = DefaultReadMsg)
          /\ (arg # <<>> /\ Len(arg) <= GATT_READ_MSG_MAX => g_gatt_read_msg = arg)
  /\ op # "gatt_set_read_msg" => g_gatt_read_msg = pre.read_msg
  /\ (op = "gatt_read" /\ ret = 0) => out = pre.read_msg

\* a peer read returns the 63-byte message set before it
C12_Witness ==
  /\ op = "gatt_read"
  /\ ret = 0
  /\ pre.read_msg = Rep(89, GATT_READ_MSG_MAX)
  /\ out = Rep(89, GATT_READ_MSG_MAX)

\* the commands a write can store
MboxCommands == {SubSeq(d, 1, WriteLen(d)) : d \in MboxData}

\* C11: with gatt_get_command and a peer write interleaved statement by
\* statement, the copy-and-clear is atomic: a take that returns bytes returns
\* one stored command whole, never bytes of two commands, and never clears a
\* command other than the one it returns.
C11_TakeCommandAtomic ==
  /\ (op = "gatt_get_command" /\ pc.app = "idle" /\ ret > 0)
       => out \in MboxCommands
  /\ ~mbox.dropped

\* C11, second half alone: no take clears a command it did not return
C11_NoCommandDropped == ~mbox.dropped

\* C11, first half alone: no take returns bytes of two commands
C11_NoMixedCommand ==
  (op = "gatt_get_command" /\ pc.app = "idle" /\ ret > 0) => out \in MboxCommands


\* C21: stop_advertising while a start is pending (g_pending_adv set) returns
\* 0, makes no transport call and leaves the module state, the pending request
\* included, as it was; the ble_on_sync that next reaches the sync point
\* therefore still submits the start exactly once, and g_ble_advertising is
\* set when the transport accepts it.
C21_StopKeepsPendingStart ==
  /\ (op = "stop_advertising" /\ pre.pending_adv = 1)
       => /\ ret = 0
          /\ calls = <<>>
          /\ State = pre
  /\ (op = "on_sync" /\ ret = 0 /\ pre.pending_adv = 1)
       => /\ ExactlyOneStart(calls)
          /\ (StartAccepted(calls) => g_ble_advertising = 1)

\* C21 where it holds: g_ble_advertising clear when stop is called, and a
\* device name that fits ad[]
C21_WhenIdleAndNameFits ==
  (/\ AdOverrun(g_device_name) = 0
   /\ op = "stop_advertising" => pre.advertising = 0)
    => C21_StopKeepsPendingStart

\* stop_advertising called with a start pending and g_ble_advertising still
\* set from before a host reset: it calls ble_gap_adv_stop and drops the
\* pending request
C21_StopDropsPendingStart ==
  /\ op = "stop_advertising"
  /\ pre.pending_adv = 1
  /\ pre.advertising = 1
  /\ pre.host_synced = 0
  /\ CallsOf(calls, "ble_gap_adv_stop") = {1}
  /\ g_pending_adv = 0
  /\ ~fault

\* stop_advertising in PendingSync proper: pending set, advertising clear
C21_Witness ==
  /\ op = "stop_advertising"
  /\ pre.pending_adv = 1
  /\ pre.advertising = 0
  /\ pre.host_synced = 0
  /\ ret = 0
  /\ g_pending_adv = 1

\* C22: when ble_on_sync replays a pending start and the transport rejects
\* it, the request stays pending (g_pending_adv still set), so that the next
\* ble_on_sync retries it.
C22_RejectedReplayStaysPending ==
  (op = "on_sync" /\ ret = 0 /\ pre.pending_adv = 1 /\ StartRejected(calls)
     /\ ~fault)
    => g_pending_adv = 1

\* what ble_on_sync does instead: the request is cleared before the start is
\* submitted, so a rejected replay leaves neither flag set by it
C22_RejectedReplayIsDropped ==
  (op = "on_sync" /\ ret = 0 /\ pre.pending_adv = 1 /\ StartRejected(calls)
     /\ ~fault)
    => /\ g_pending_adv = 0
       /\ g_ble_advertising = pre.advertising

C22_Witness ==
  /\ op = "on_sync"
  /\ pre.pending_adv = 1
  /\ pre.advertising = 0
  /\ AdOverrun(g_device_name) = 0
  /\ StartRejected(calls)
  /\ g_pending_adv = 0
  /\ g_ble_advertising = 0

\* C23: every ble_on_sync leaves g_ble_host_synced set and replays a pending
\* start, whatever the address generation, address check and address type
\* inference returned.
C23_EverySyncSetsHostSynced ==
  op = "on_sync"
    => /\ g_ble_host_synced = 1
       /\ (pre.pending_adv = 1 => ~NoStartCall(calls) \/ fault)

\* the ble_on_sync that returned early: flag and pending request untouched
C23_SyncReturnedEarly ==
  /\ op = "on_sync"
  /\ ret = -1
  /\ pre.pending_adv = 1
  /\ pre.host_synced = 0
  /\ g_ble_host_synced = 0
  /\ g_pending_adv = 1
  /\ calls = <<>>

\* C24: ble_on_reset clears g_ble_host_synced, makes no transport call and
\* leaves every other part of the module state (advertising and pending
\* flags, connection, device name, command buffer, read message) as it was.
C24_ResetClearsOnlyHostSynced ==
  op = "on_reset"
    => /\ g_ble_host_synced = 0
       /\ calls = <<>>
       /\ State = [pre EXCEPT !.host_synced = 0]

\* a reset while synced, advertising and connected, with a request pending
C24_Witness ==
  /\ op = "on_reset"
  /\ pre.host_synced = 1
  /\ pre.advertising = 1
  /\ pre.connected = 1
  /\ g_ble_host_synced = 0
  /\ g_ble_advertising = 1
  /\ g_ble_connected = 1

\* C25: the start is submitted to the transport only while g_ble_host_synced
\* is set, a disconnect or a failed connect after a host reset included.
C25_StartOnlyWhileSynced ==
  ~NoStartCall(calls) => g_ble_host_synced = 1

\* C25 for the two functions that test the flag: start_advertising and
\* ble_on_sync submit the start only with g_ble_host_synced set
C25_StartAndSyncOnlyWhileSynced ==
  (op \in {"start_advertising", "on_sync"} /\ ~NoStartCall(calls))
    => g_ble_host_synced = 1

\* the resume after a host reset: a start submitted with the flag clear
C25_ResumeWhileNotSynced ==
  /\ op \in {"gap_disconnect", "gap_connect"}
  /\ pre.host_synced = 0
  /\ g_ble_host_synced = 0
  /\ StartAccepted(calls)

\* C26: a connect event with status 0, an MTU event and an advertising
\* complete event leave g_ble_advertising, g_pending_adv and
\* g_ble_host_synced as they were and make no transport call (the connect
\* changes g_ble_connected and g_conn_handle only, the other two nothing);
\* hence a disconnect while g_ble_advertising is set, after a connect or not,
\* submits the start exactly once and leaves g_ble_advertising set.
C26_ConnectKeepsAdvertising ==
  /\ (op = "gap_connect" /\ arg[1] = 0)
       => /\ calls = <<>>
          /\ State = [pre EXCEPT !.connected = 1, !.conn_handle = arg[2]]
  /\ op \in {"gap_mtu", "gap_adv_complete"}
       => /\ calls = <<>>
          /\ State = pre
  /\ (op = "gap_disconnect" /\ pre.advertising = 1)
       => /\ ExactlyOneStart(calls)
          /\ g_ble_advertising = 1

\* C26, the frame part alone
C26_ConnectMtuAdvCompleteFrame ==
  /\ (op = "gap_connect" /\ arg[1] = 0)
       => /\ calls = <<>>
          /\ State = [pre EXCEPT !.connected = 1, !.conn_handle = arg[2]]
  /\ op \in {"gap_mtu", "gap_adv_complete"}
       => /\ calls = <<>>
          /\ State = pre

\* C26 for names that fit ad[]
C26_WhenNameFits ==
  AdOverrun(g_device_name) = 0 => C26_ConnectKeepsAdvertising

\* a disconnect of a connection made while advertising resumes advertising
C26_Witness ==
  /\ op = "gap_disconnect"
  /\ pre.connected = 1
  /\ pre.advertising = 1
  /\ pre.pending_adv = 0
  /\ pre.host_synced = 1
  /\ StartAccepted(calls)
  /\ g_ble_advertising = 1


\* C27: a peer write of any byte string, the zero-length one included, is
\* accepted (gatt_chr_access returns 0) and leaves a command pending
\* (g_gatt_command_len > 0); gatt_has_command returns 1 exactly while a command
\* is pending and changes nothing, and nothing but a write or gatt_get_command
\* changes g_gatt_command_len, so gatt_has_command returns 1 from the write
\* until the next gatt_get_command.
C27_WriteAlwaysLeavesCommand ==
  /\ op = "gatt_write" => (ret = 0 /\ g_gatt_command_len > 0)
  /\ op = "gatt_has_command"
       => /\ ret = IF pre.command_len > 0 THEN 1 ELSE 0
          /\ State = pre
  /\ op \notin {"gatt_write", "gatt_get_command"}
       => g_gatt_command_len = pre.command_len

\* C27 for the writes the handler stores with at least one byte
C27_WhenStoredAndNotEmpty ==
  (op = "gatt_write" => (ret = 0 /\ arg # <<>>))
    => C27_WriteAlwaysLeavesCommand

\* a zero-length write was accepted and no command is pending
C27_EmptyWriteLeavesNothing ==
  /\ op = "gatt_write"
  /\ arg = <<>>
  /\ ret = 0
  /\ pre.command_len > 0
  /\ g_gatt_command_len = 0

\* gatt_has_command returns 1 after a stored two-byte write
C27_Witness ==
  /\ op = "gatt_has_command"
  /\ ret = 1
  /\ last_write = <<100, 101>>
  /\ g_gatt_command_len = 2

\* C28: gatt_get_command with a command of n > 0 bytes pending, buf non-NULL
\* and buf_len >= 1 returns a positive count and copies that many leading bytes
\* of the command; and whenever gatt_get_command returns 0 it leaves
\* g_gatt_command_len as it was (a pending command is never cleared by a call
\* that returned nothing).
C28_TakeDeliversCommand ==
  op = "gatt_get_command"
    => /\ (pre.command_len > 0 /\ arg[2] = 1 /\ arg[1] >= 1)
            => /\ ret > 0
               /\ out = SubSeq(pre.command, 1, ret)
       /\ ret = 0 => g_gatt_command_len = pre.command_len

\* C28 for buffers with room for a byte and the terminator
C28_WhenRoomForOneByte ==
  (op = "gatt_get_command" => arg[1] # 1) => C28_TakeDeliversCommand

\* gatt_get_command(buf, 1) with a command pending: 0 returned, command gone
C28_TakeWithOneByteBuffer ==
  /\ op = "gatt_get_command"
  /\ arg = <<1, 1>>
  /\ pre.command_len > 0
  /\ ret = 0
  /\ g_gatt_command_len = 0

\* a three-byte command taken into a three-byte buffer: two bytes returned
C28_Witness ==
  /\ op = "gatt_get_command"
  /\ arg = <<3, 1>>
  /\ pre.command_len = 3
  /\ ret = 2
  /\ out = <<97, 98>>
  /\ g_gatt_command_len = 0

\* C29: a peer read of the read characteristic changes no state, answered or
\* not; the answer is the read message as it stands; and no function but
\* gatt_set_read_msg (peer writes, gatt_get_command, gatt_has_command, init,
\* advertising calls and connection events included) changes the read message.
C29_ReadChangesNothing ==
  /\ op = "gatt_read"
       => /\ State = pre
          /\ (ret = 0 => out = g_gatt_read_msg)
  /\ op # "gatt_set_read_msg" => g_gatt_read_msg = pre.read_msg

\* a read answered with the message set earlier, a command pending before and
\* after it
C29_Witness ==
  /\ op = "gatt_read"
  /\ ret = 0
  /\ out = <<88>>
  /\ pre.command_len = 3
  /\ g_gatt_command_len = 3

\* C30: start_advertising(name) while initialized, with a non-empty name,
\* leaves in g_device_name the first min(len, 31) bytes of name and hands them
\* to ble_svc_gap_device_name_set before anything else, host synced or not;
\* with NULL or "" it leaves g_device_name alone and does not call
\* ble_svc_gap_device_name_set; no other function changes g_device_name. So
\* g_device_name is the name of the last request that carried one ("RustCam"
\* before any did), and it is the name in every advertising data submitted.
C30_NameOfLastNamedRequest ==
  /\ (op = "start_advertising" /\ pre.initialized = 1 /\ arg # <<>>)
       => /\ g_device_name =
               SubSeq(arg, 1, IF Len(arg) < DEVICE_NAME_MAX THEN Len(arg)
                                                           ELSE DEVICE_NAME_MAX)
          /\ svc_gap_device_name = g_device_name
          /\ calls # <<>>
          /\ calls[1] = Call("ble_svc_gap_device_name_set", g_device_name, 0)
  /\ (op = "start_advertising" /\ arg = <<>>)
       => /\ g_device_name = pre.device_name
          /\ CallsOf(calls, "ble_svc_gap_device_name_set") = {}
  /\ op # "start_advertising" => g_device_name = pre.device_name
  /\ ~fault
       => g_device_name =
            IF req_name = <<>>
              THEN DefaultDeviceName
              ELSE SubSeq(req_name, 1,
                          IF Len(req_name) < DEVICE_NAME_MAX
                            THEN Len(req_name) ELSE DEVICE_NAME_MAX)
  /\ \A i \in CallsOf(calls, "ble_gap_adv_set_data") :
       AdvertisedName(calls[i].data) = g_device_name

\* a start with no name, host synced, advertises the name of the earlier
\* request
C30_Witness ==
  /\ op = "start_advertising"
  /\ arg = <<>>
  /\ pre.host_synced = 1
  /\ req_name = <<65, 66>>
  /\ StartAccepted(calls)
  /\ SubmittedName(calls) = <<65, 66>>

\* a deferred start with a 33-byte name: 31 bytes kept and handed on
C30_WitnessTruncated ==
  /\ op = "start_advertising"
  /\ Len(arg) = MaxNameLen
  /\ pre.host_synced = 0
  /\ Len(g_device_name) = DEVICE_NAME_MAX
  /\ svc_gap_device_name = g_device_name
  /\ g_pending_adv = 1


\* C33: while g_ble_initialized is clear, g_ble_advertising is clear and no
\* handler submits the start to the transport, the events the host thread
\* still delivers after deinit included.
C33_NoAdvertisingWhileUninitialized ==
  /\ g_ble_initialized = 0 => g_ble_advertising = 0
  /\ (pre.initialized = 0 /\ g_ble_initialized = 0) => NoStartCall(calls)

\* the ble_on_sync that follows a deferred start and a deinit: the start is
\* submitted and g_ble_advertising set with g_ble_initialized clear
C33_SyncAfterDeinitAdvertises ==
  /\ op = "on_sync"
  /\ pre.initialized = 0
  /\ pre.pending_adv = 1
  /\ g_ble_initialized = 0
  /\ StartAccepted(calls)
  /\ g_ble_advertising = 1

\* C34: g_pending_adv and g_ble_advertising are never both set, so the two
\* flags denote exactly one of Idle (both clear), PendingSync (pending set)
\* and Advertising (advertising set).
C34_PendingAndAdvertisingExclusive ==
  ~(g_pending_adv = 1 /\ g_ble_advertising = 1)

\* start_advertising after a host reset that came while advertising: the
\* request is deferred with g_ble_advertising still set
C34_BothFlagsSet ==
  /\ op = "start_advertising"
  /\ pre.advertising = 1
  /\ pre.pending_adv = 0
  /\ pre.host_synced = 0
  /\ ret = 0
  /\ g_pending_adv = 1
  /\ g_ble_advertising = 1

\* C35: at most one host thread and at most one HCI socket thread spawned by
\* init are alive at any time.
C35_AtMostOneThreadEach ==
  /\ n_host_threads <= 1
  /\ n_hci_threads <= 1

\* init, deinit, init: the second init returned 0 with the threads of the
\* first still running
C35_SecondInitSpawnsAgain ==
  /\ op = "init"
  /\ ret = 0
  /\ pre.host_threads = 1
  /\ pre.hci_threads = 1
  /\ n_host_threads = 2
  /\ n_hci_threads = 2

\* C36: in the native backend g_ble_advertising is set only while
\* g_ble_initialized is: a deinit that returned 0 leaves it clear, a failed
\* stop ioctl notwithstanding, and so start_advertising after the next init
\* calls the start ioctl.
C36_NativeAdvertisingOnlyWhileInitialized ==
  /\ g_ble_initialized = 0 => g_ble_advertising = 0
  /\ (op = "deinit" /\ ret = 0) => g_ble_advertising = 0
  /\ (op = "start_advertising" /\ pre.initialized = 1 /\ ret = 0
        /\ pre.advertising = 0)
       => CallsOf(calls, "ioctl_SIOCBTADVSTART") = {1}

\* native deinit with the stop ioctl failing: 0 returned, socket closed,
\* g_ble_advertising still set
C36_DeinitLeavesFlagSet ==
  /\ op = "deinit"
  /\ ret = 0
  /\ pre.advertising = 1
  /\ g_ble_initialized = 0
  /\ g_bt_sockfd = -1
  /\ g_ble_advertising = 1

\* the start_advertising that follows the next init: 0 returned as already
\* advertising, no ioctl
C36_StartSkippedOnStaleFlag ==
  /\ op = "start_advertising"
  /\ pre.initialized = 1
  /\ pre.advertising = 1
  /\ ret = 0
  /\ calls = <<>>


\* C32: with stop_advertising and the handler of a disconnect or a failed
\* connect interleaved statement by statement: once stop_advertising has
\* returned and the handler has run to its end, no start_advertising having
\* been called since, g_ble_advertising is clear and the last transport call
\* made is not an accepted ble_gap_adv_start.
C32_StopWinsOverResume ==
  (/\ race.stop_returned
   /\ pc.app = "idle"
   /\ pc.host = "idle")
    => /\ g_ble_advertising = 0
       /\ calls # <<>>
            => ~(/\ calls[Len(calls)].fn = "ble_gap_adv_start"
                 /\ calls[Len(calls)].rc = 0)

\* the stop overtook the end of the resume: ble_gap_adv_stop is the last
\* transport call, and g_ble_advertising was set after stop_advertising
\* cleared it
C32_FlagSetAfterStop ==
  /\ race.stop_returned
  /\ pc.app = "idle"
  /\ pc.host = "idle"
  /\ calls # <<>>
  /\ calls[Len(calls)].fn = "ble_gap_adv_stop"
  /\ g_ble_advertising = 1

\* stop_advertising returned after ble_gap_adv_stop, a disconnect handled
\* since, and advertising is off
C32_Witness ==
  /\ race.stop_returned
  /\ pc.app = "idle"
  /\ pc.host = "idle"
  /\ op = "gap_disconnect"
  /\ calls # <<>>
  /\ calls[Len(calls)].fn = "ble_gap_adv_stop"
  /\ g_ble_advertising = 0

\* the resume overtook the stop: advertising restarted after
\* stop_advertising's ble_gap_adv_stop, and g_ble_advertising set again
C32_ResumeAfterStop ==
  /\ race.stop_returned
  /\ pc.app = "idle"
  /\ pc.host = "idle"
  /\ CallsOf(calls, "ble_gap_adv_stop") # {}
  /\ calls[Len(calls)].fn = "ble_gap_adv_start"
  /\ calls[Len(calls)].rc = 0
  /\ g_ble_advertising = 1


\* the names g_device_name holds between calls: the default and every name
\* argument as start_advertising stores it
CompleteNames ==
  {DefaultDeviceName}
    \cup {Strncpy(n, DEVICE_NAME_MAX) : n \in CopyNames \ {<<>>}}

\* C31: with start_advertising(name) and a do_start_advertising run by the
\* host thread interleaved statement by statement, g_device_name is never
\* about to be read while it is being written; so the name in the advertising
\* data handed to ble_gap_adv_set_data is one of the complete names, old or
\* new, and the length byte of the name field counts exactly the name bytes
\* in the data.
C31_NameNeverReadWhileWritten ==
  /\ ~Overlap(pc)
  /\ \A k \in CallsOf(calls, "ble_gap_adv_set_data") :
       LET d == calls[k].data
       IN  /\ SubSeq(d, 6, Len(d)) \in CompleteNames
           /\ d[4] = Len(d) - 5 + 1

\* C31 for the runs in which no read of g_device_name came while a
\* start_advertising was inside strncpy
C31_WhenNeverOverlapped ==
  ~cpy.raced
    => \A k \in CallsOf(calls, "ble_gap_adv_set_data") :
         LET d == calls[k].data
         IN  /\ SubSeq(d, 6, Len(d)) \in CompleteNames
             /\ d[4] = Len(d) - 5 + 1

\* the host thread advertised the new name's two bytes followed by the old
\* name's: "ABstCam"
C31_MixedNameAdvertised ==
  /\ calls # <<>>
  /\ calls[1].fn = "ble_gap_adv_set_data"
  /\ calls[1].rc = 0
  /\ calls[1].data[4] = 8
  /\ SubSeq(calls[1].data, 6, 12) = <<65, 66, 115, 116, 67, 97, 109>>

\* the length byte says seven name bytes, two were copied
C31_LengthByteMismatch ==
  /\ calls # <<>>
  /\ calls[1].fn = "ble_gap_adv_set_data"
  /\ calls[1].data[4] = 8
  /\ Len(calls[1].data) = 7
  /\ cpy.n = 2

\* a do_start_advertising that ran with no start_advertising under way
\* advertises the new name whole
C31_Witness ==
  /\ ~cpy.raced
  /\ pc.host = "adv_start"
  /\ calls = << Call("ble_gap_adv_set_data", AdPayload(<<65, 66>>), 0) >>
  /\ g_device_name = <<65, 66>>

====
